---------------------------- MODULE Spec2Model ----------------------------
(***************************************************************************)
(* A model of the extraction-and-reconciliation pipeline of tender-main:   *)
(*   ai_services.py     schema, normalizer, merger, aggregator,            *)
(*                      analyze_text                                       *)
(*   search_services.py SearchService: price cache and price parser        *)
(*                                                                         *)
(* JSON values are tagged records [t |-> tag, v |-> payload]:              *)
(*   "null"  None                 "bool"  True / False                     *)
(*   "str"   a sequence of one-character strings                           *)
(*   "num"   an integer           "list"  a sequence of values             *)
(*   "dict"  a function from key strings to values                         *)
(***************************************************************************)
EXTENDS Integers, Sequences, FiniteSets, TLC

VARIABLES
    dicts,      \* the list handed to _aggregate_tender_dicts
    mpc,        \* position in the normalize / aggregate run
    nrm,        \* _normalize_to_schema(dicts[1])
    nrm2,       \* _normalize_to_schema(nrm)
    kept,       \* aggregate: the list after the isinstance/non-empty filter
    agg,        \* aggregate: the accumulator
    midx,       \* aggregate: number of sources merged so far
    result      \* aggregate: the returned record

mergeVars == <<dicts, mpc, nrm, nrm2, kept, agg, midx, result>>

VARIABLES
    content,    \* the LLM answer handed to _parse_llm_price
    ppc,        \* "start", then "returned" or "raised"
    quote       \* the PriceInfo _parse_llm_price returned

parseVars == <<content, ppc, quote>>

VARIABLES
    apiKey,     \* SearchService: OPENROUTER_API_KEY is set
    cache,      \* SearchService._cache: cache key -> PriceInfo
    llmCalls,   \* history: calls of provider.generate per normalized key
    seen,       \* history: what the first lookup of a normalized key returned
    nLookups,   \* history: number of search_prices calls so far
    lastKey,    \* history: the normalized key of the last search_prices call
    lastRet,    \* the PriceInfo the last search_prices call returned
    lastLLM,    \* history: calls of provider.generate in the last call
    lastLater   \* history: the last call's key had been looked up before

priceVars ==
    <<apiKey, cache, llmCalls, seen, nLookups, lastKey, lastRet, lastLLM,
      lastLater>>

VARIABLES
    text,             \* analyze_text: the text argument
    use_llm,          \* analyze_text: the use_llm argument
    user_city,        \* analyze_text: the user_city argument
    providerOk,       \* ProviderRegistry.get_provider() returns a provider
    apc,              \* where analyze_text is
    fallback_data,    \* analyze_text: fallback_data
    chunks,           \* analyze_text: chunks
    cidx,             \* analyze_text: chunks handed to the LLM so far
    partial_results,  \* analyze_text: partial_results
    tender_data,      \* analyze_text: tender_data
    aresult,          \* the record analyze_text returns (serialised)
    quotes,           \* history: the quote each price lookup returned, per key
    called,           \* history: the chunk index of each provider.generate call
    yielded           \* history: what each chunk's answer parsed to, or None

analyzeVars ==
    <<text, use_llm, user_city, providerOk, apc, fallback_data, chunks, cidx,
      partial_results, tender_data, aresult, quotes, called, yielded>>

\* the history of analyze_text
analyzeHist == <<quotes, called, yielded>>

VARIABLES
    rec_td,     \* _postprocess_fields: the tender_data argument
    rec_fb,     \* _postprocess_fields: the fallback_data argument
    rec_pc,     \* "start", then "returned" or "raised"
    rec_out     \* the record _postprocess_fields returned

reconcileVars == <<rec_td, rec_fb, rec_pc, rec_out>>

VARIABLES
    sp_impl,    \* _split_text: "ai_services" or "parser_pipeline"
    sp_in,      \* the text argument
    sp_size,    \* the chunk_size argument
    sp_over,    \* the overlap argument
    sp_text,    \* text after strip()
    sp_start,   \* start of the while loop
    sp_chunks,  \* chunks: the list the call builds and returns
    sp_pc       \* "start", "loop", then "done" or "exhausted"

splitVars ==
    <<sp_impl, sp_in, sp_size, sp_over, sp_text, sp_start, sp_chunks, sp_pc>>

VARIABLES
    wk_td,      \* extract_works: the tender_data argument
    wk_pc,      \* "start", then "returned" or "raised"
    wk_out      \* the list extract_works returned

worksVars == <<wk_td, wk_pc, wk_out>>

VARIABLES
    pf_key,         \* search_performers: self._places_api_key is set
    pf_task,        \* the task argument
    pf_limit,       \* the limit argument
    pf_places,      \* what the organisations search answers, if it is asked
    pf_avito,       \* what the classifieds search answers, if it is asked
    pf_requests,    \* history: the external requests made, in order
    pf_first,       \* history: the performers after step 1
    pf_performers,  \* performers
    pf_pc           \* "start", "primary", "fallback", "done"

performVars ==
    <<pf_key, pf_task, pf_limit, pf_places, pf_avito, pf_requests, pf_first,
      pf_performers, pf_pc>>

VARIABLES
    rc_apiKey,      \* concurrent search_prices: self._openrouter_api_key set
    rc_task,        \* the task argument of each lookup
    rc_cache,       \* self._cache of the one instance
    rc_pc,          \* each lookup: "start", "hit", "miss", "store", "done"
    rc_info,        \* each lookup's local info
    rc_ret,         \* what each lookup returned
    rc_made,        \* history: the quotes the lookups built
    rc_writes       \* history: the quotes written to the cache, in order

raceVars ==
    <<rc_apiKey, rc_task, rc_cache, rc_pc, rc_info, rc_ret, rc_made,
      rc_writes>>

VARIABLES
    fb_lines,       \* _fallback_parse on its own: the lines of the text
    fb_pc,          \* "start", "done"
    fb_record       \* the record returned

fallbackVars == <<fb_lines, fb_pc, fb_record>>

VARIABLES
    sj_records,     \* summarize_jsons: the per-file records, in order
    sj_pc,          \* "start", "done"
    sj_out          \* the record returned

summaryVars == <<sj_records, sj_pc, sj_out>>

VARIABLES
    hp_heap,        \* the objects of the interpreter: dicts and lists by address
    hp_inputs,      \* the references of the dicts handed to the aggregation
    hp_given,       \* history: what the input dicts held when they were handed over
    hp_fb,          \* fallback_data
    hp_td,          \* tender_data
    hp_city,        \* user_city
    hp_pc           \* "start", "parsed", "normalized", "reconciled",
                    \* "enriched", "raised", "summarized"

heapVars == <<hp_heap, hp_inputs, hp_given, hp_fb, hp_td, hp_city, hp_pc>>

vars ==
    <<mergeVars, parseVars, priceVars, analyzeVars, reconcileVars,
      splitVars, worksVars, performVars, raceVars, fallbackVars,
      summaryVars, heapVars>>

\* what the actions of one part leave alone: the variables of the others
notMerge ==
    <<parseVars, priceVars, analyzeVars, reconcileVars, splitVars,
      worksVars, performVars, raceVars, fallbackVars, summaryVars,
      heapVars>>

notParse ==
    <<mergeVars, priceVars, analyzeVars, reconcileVars, splitVars,
      worksVars, performVars, raceVars, fallbackVars, summaryVars,
      heapVars>>

notPrice ==
    <<mergeVars, parseVars, analyzeVars, reconcileVars, splitVars,
      worksVars, performVars, raceVars, fallbackVars, summaryVars,
      heapVars>>

notAnalyze ==
    <<mergeVars, parseVars, priceVars, reconcileVars, splitVars,
      worksVars, performVars, raceVars, fallbackVars, summaryVars,
      heapVars>>

notReconcile ==
    <<mergeVars, parseVars, priceVars, analyzeVars, splitVars,
      worksVars, performVars, raceVars, fallbackVars, summaryVars,
      heapVars>>

notSplit ==
    <<mergeVars, parseVars, priceVars, analyzeVars, reconcileVars,
      worksVars, performVars, raceVars, fallbackVars, summaryVars,
      heapVars>>

notWorks ==
    <<mergeVars, parseVars, priceVars, analyzeVars, reconcileVars,
      splitVars, performVars, raceVars, fallbackVars, summaryVars,
      heapVars>>

notPerform ==
    <<mergeVars, parseVars, priceVars, analyzeVars, reconcileVars,
      splitVars, worksVars, raceVars, fallbackVars, summaryVars,
      heapVars>>

notRace ==
    <<mergeVars, parseVars, priceVars, analyzeVars, reconcileVars,
      splitVars, worksVars, performVars, fallbackVars, summaryVars,
      heapVars>>

notFallback ==
    <<mergeVars, parseVars, priceVars, analyzeVars, reconcileVars,
      splitVars, worksVars, performVars, raceVars, summaryVars,
      heapVars>>

notSummary ==
    <<mergeVars, parseVars, priceVars, analyzeVars, reconcileVars,
      splitVars, worksVars, performVars, raceVars, fallbackVars,
      heapVars>>

notHeap ==
    <<mergeVars, parseVars, priceVars, analyzeVars, reconcileVars,
      splitVars, worksVars, performVars, raceVars, fallbackVars,
      summaryVars>>

-----------------------------------------------------------------------------
(* JSON values *)

Null == [t |-> "null", v |-> 0]

Bool(b) == [t |-> "bool", v |-> b]

Str(s) == [t |-> "str", v |-> s]

Num(n) == [t |-> "num", v |-> n]

List(xs) == [t |-> "list", v |-> xs]

Dict(m) == [t |-> "dict", v |-> m]

EmptyMap == [k \in {} |-> Null]

EmptyStr == Str(<< >>)

IsDict(x) == x.t = "dict"

IsList(x) == x.t = "list"

\* dict.get(k): the value at k, None when the key is missing
Get(m, k) == IF k \in DOMAIN m THEN m[k] ELSE Null

\* a counter per key: 0 where nothing was counted yet
Get2(m, k) == IF k \in DOMAIN m THEN m[k] ELSE 0

\* Python truthiness of a JSON value (the `x or default` idiom)
Truthy(x) ==
    CASE x.t = "null" -> FALSE
      [] x.t = "bool" -> x.v
      [] x.t = "num"  -> x.v # 0
      [] x.t = "str"  -> Len(x.v) > 0
      [] x.t = "list" -> Len(x.v) > 0
      [] x.t = "dict" -> DOMAIN x.v # {}

-----------------------------------------------------------------------------
(* ai_services.py: UNIFIED_TENDER_SCHEMA *)

WorkTemplate ==
    Dict([name |-> EmptyStr, volume |-> EmptyStr, unit |-> EmptyStr,
          materials |-> EmptyStr, equipment |-> EmptyStr,
          location |-> EmptyStr, notes |-> EmptyStr])

GoodsTemplate ==
    Dict([name |-> EmptyStr, description |-> EmptyStr, brand |-> EmptyStr,
          model |-> EmptyStr, certificates |-> EmptyStr,
          quantity |-> EmptyStr, unit |-> EmptyStr, requirements |-> EmptyStr])

UNIFIED_TENDER_SCHEMA ==
    Dict([
        tender_id     |-> EmptyStr,
        title         |-> EmptyStr,
        description   |-> EmptyStr,
        document_type |-> EmptyStr,
        purchase_type |-> EmptyStr,
        customer      |-> Dict([name |-> EmptyStr, inn |-> EmptyStr,
                                kpp |-> EmptyStr, ogrn |-> EmptyStr,
                                address |-> EmptyStr, contacts |-> EmptyStr]),
        object        |-> Dict([name |-> EmptyStr, address |-> EmptyStr,
                                category |-> EmptyStr, volume |-> EmptyStr,
                                unit |-> EmptyStr]),
        technical     |-> Dict([requirements |-> EmptyStr,
                                conditions |-> EmptyStr,
                                works |-> Dict([works_list |->
                                                  List(<<WorkTemplate>>)])]),
        timeline      |-> Dict([start_date |-> EmptyStr, end_date |-> EmptyStr,
                                duration_days |-> EmptyStr,
                                delivery_schedule |-> EmptyStr]),
        pricing       |-> Dict([currency |-> Str(<<"R", "U", "B">>),
                                price_estimate_min |-> EmptyStr,
                                price_estimate_max |-> EmptyStr,
                                sources |-> EmptyStr,
                                calculation_comment |-> EmptyStr]),
        goods         |-> Dict([items |-> List(<<GoodsTemplate>>)]),
        legal         |-> Dict([contract_conditions |-> EmptyStr,
                                penalties |-> EmptyStr,
                                guarantees |-> EmptyStr]),
        analysis_meta |-> Dict([user_city |-> EmptyStr,
                                fallback_used |-> Bool(FALSE),
                                fallback_reason |-> EmptyStr])
    ])

\* copy.deepcopy(UNIFIED_TENDER_SCHEMA): values have no identity here
_deep_copy_schema == UNIFIED_TENDER_SCHEMA

-----------------------------------------------------------------------------
(* ai_services.py: _normalize_to_schema and its inner _fill *)

RECURSIVE _fill(_, _)

\* _fill with the list branch returning template + d
_fill_list_appended(template, d) ==
    IF IsDict(template) THEN
        LET dd == IF IsDict(d) THEN d.v ELSE EmptyMap
        IN  Dict([k \in (DOMAIN template.v) \cup (DOMAIN dd) |->
                    IF k \in DOMAIN template.v
                    THEN _fill(template.v[k], Get(dd, k))
                    ELSE dd[k]])
    ELSE IF IsList(template) THEN
        IF IsList(d) THEN List(template.v \o d.v) ELSE template
    ELSE
        IF d \in {Null, EmptyStr} THEN template ELSE d

\* _fill without its second loop (the keys the template does not have)
_fill_template_keys_only(template, d) ==
    IF IsDict(template) THEN
        LET dd == IF IsDict(d) THEN d.v ELSE EmptyMap
        IN  Dict([k \in DOMAIN template.v |->
                    _fill(template.v[k], Get(dd, k))])
    ELSE IF IsList(template) THEN
        IF IsList(d) THEN d ELSE template
    ELSE
        IF d \in {Null, EmptyStr} THEN template ELSE d

_fill(template, d) ==
    IF IsDict(template) THEN
        LET dd == IF IsDict(d) THEN d.v ELSE EmptyMap
        IN  Dict([k \in (DOMAIN template.v) \cup (DOMAIN dd) |->
                    IF k \in DOMAIN template.v
                    THEN _fill(template.v[k], Get(dd, k))
                    ELSE dd[k]])
    ELSE IF IsList(template) THEN
        IF IsList(d) THEN d ELSE template
    ELSE
        IF d \in {Null, EmptyStr} THEN template ELSE d

_normalize_to_schema(data) == _fill(UNIFIED_TENDER_SCHEMA, data)

-----------------------------------------------------------------------------
(* ai_services.py: _merge_dicts and _aggregate_tender_dicts *)

\* the scalar branch's guard: v not in ("", None, [])
ScalarOverrides(v) == v \notin {EmptyStr, Null, List(<< >>)}

\* the keys of extra whose value is written to base: every dict and list,
\* and the scalars that override
Written(extra) ==
    {k \in DOMAIN extra.v :
        IsDict(extra.v[k]) \/ IsList(extra.v[k]) \/ ScalarOverrides(extra.v[k])}

RECURSIVE _merge_dicts(_, _)
_merge_dicts(base, extra) ==
    IF ~IsDict(extra) THEN base
    ELSE Dict([k \in (DOMAIN base.v) \cup Written(extra) |->
            IF k \notin DOMAIN extra.v THEN base.v[k]
            ELSE LET v == extra.v[k]
                     b == Get(base.v, k)
                 IN  IF IsDict(v) THEN
                         LET node == IF Truthy(b) /\ IsDict(b)
                                     THEN b ELSE Dict(EmptyMap)
                         IN  _merge_dicts(node, v)
                     ELSE IF IsList(v) THEN
                         IF IsList(b) THEN List(b.v \o v.v) ELSE v
                     ELSE
                         IF ScalarOverrides(v) THEN v ELSE b])

\* dicts = [d for d in dicts if isinstance(d, dict) and d]
FilterDicts(ds) == SelectSeq(ds, LAMBDA d : IsDict(d) /\ Truthy(d))

RECURSIVE MergeAll(_, _)
MergeAll(acc, ds) ==
    IF ds = << >> THEN acc ELSE MergeAll(_merge_dicts(acc, Head(ds)), Tail(ds))

_aggregate_tender_dicts(ds) ==
    LET fs == FilterDicts(ds)
    IN  IF fs = << >> THEN _deep_copy_schema
        ELSE _normalize_to_schema(MergeAll(_deep_copy_schema, fs))

-----------------------------------------------------------------------------
(* Inputs of the normalizer and the merger: partial dicts as an LLM, the    *)
(* heuristic parser or a per-file record can supply them.  Every template   *)
(* node kind (scalar, scalar with a non-empty default, dict section, nested *)
(* dict section, list) is probed with a present, missing, empty and         *)
(* wrong-shaped value, and extra keys occur at the top level and inside     *)
(* sections.                                                                *)

MaxDicts == 2

sT1 == Str(<<"T", "1">>)

sT2 == Str(<<"T", "2">>)

sUSD == Str(<<"U", "S", "D">>)

One(k, x) == Dict([kk \in {k} |-> x])

Work1 == Dict([name |-> sT1, volume |-> Num(3), unit |-> EmptyStr])

Goods1 == Dict([name |-> sT2, quantity |-> Num(2)])

ScalarProbes ==
    {Null, EmptyStr, sT1, sT2, Num(0), Num(7), List(<< >>), List(<<sT1>>),
     Dict(EmptyMap), One("k", sT1)}

SectionProbes ==
    {Null, sT1, List(<<sT1>>), Dict(EmptyMap), One("name", sT1),
     One("name", One("k", sT2)), One("contacts", List(<< >>)),
     Dict([name |-> EmptyStr, extra_key |-> sT2])}

ListProbes ==
    {Null, sT1, Dict(EmptyMap), List(<< >>), List(<<Goods1>>),
     List(<<sT1, Goods1>>)}

PartialDicts ==
    {Dict(EmptyMap)}
    \cup {One("title", x) : x \in ScalarProbes}
    \cup {One("customer", x) : x \in SectionProbes}
    \cup {One("goods", One("items", x)) : x \in ListProbes}
    \cup {One("technical", One("works", x)) :
            x \in {sT1, One("works_list", List(<<Work1>>)),
                   Dict([works_list |-> sT1, items |-> List(<<Work1>>)])}}
    \cup {One("pricing", One("currency", x)) : x \in {EmptyStr, sUSD}}
    \cup {One("analysis_meta", One("fallback_used", Bool(TRUE))),
          One("market_analysis", One("city", sT1)),
          One("works", List(<<Work1>>)),
          Dict([title |-> sT2, customer |-> One("name", sT1),
                goods |-> One("items", List(<<Goods1>>)),
                market_analysis |-> One("city", sT2)]),
          Dict([title |-> One("k", sT1), goods |-> sT1,
                legal |-> Dict([penalties |-> sT1, extra_key |-> Null]),
                works |-> List(<< >>)])}

\* what a caller can put in the list besides dicts (filtered by aggregate)
NonDicts == {Null, sT1, List(<<One("title", sT1)>>)}

DictLists ==
    UNION {[1..n -> PartialDicts \cup NonDicts] : n \in 0..MaxDicts}

\* the dict the normalizer is applied to
FirstDict == IF dicts = << >> THEN Dict(EmptyMap) ELSE dicts[1]

\* search_performers not called on its own
PerformIdle ==
    /\ pf_key = FALSE
    /\ pf_task = Null
    /\ pf_limit = 0
    /\ pf_places = Null
    /\ pf_avito = Null
    /\ pf_requests = << >>
    /\ pf_first = << >>
    /\ pf_performers = << >>
    /\ pf_pc = "idle"

\* no concurrent lookups
RaceIdle ==
    /\ rc_apiKey = FALSE
    /\ rc_task = << >>
    /\ rc_cache = << >>
    /\ rc_pc = << >>
    /\ rc_info = << >>
    /\ rc_ret = << >>
    /\ rc_made = {}
    /\ rc_writes = << >>

\* _fallback_parse not called on its own
FallbackIdle ==
    /\ fb_lines = << >>
    /\ fb_pc = "idle"
    /\ fb_record = Null

\* summarize_jsons not called
SummaryIdle ==
    /\ sj_records = << >>
    /\ sj_pc = "idle"
    /\ sj_out = Null

\* no pipeline run on the heap
HeapIdle ==
    /\ hp_heap = << >>
    /\ hp_inputs = << >>
    /\ hp_given = << >>
    /\ hp_fb = Null
    /\ hp_td = Null
    /\ hp_city = Null
    /\ hp_pc = "idle"

\* the normalizer and the merger at rest (specifications that do not run
\* them)
MergeIdle ==
    /\ dicts = << >>
    /\ mpc = "idle"
    /\ nrm = Null
    /\ nrm2 = Null
    /\ kept = << >>
    /\ agg = Null
    /\ midx = 0
    /\ result = Null

\* the price parser at rest
ParseIdle == content = Null /\ ppc = "idle" /\ quote = Null

\* analyze_text not called
AnalyzeIdle ==
    /\ text = Null
    /\ use_llm = FALSE
    /\ user_city = Null
    /\ providerOk = FALSE
    /\ apc = "idle"
    /\ fallback_data = Null
    /\ chunks = << >>
    /\ cidx = 0
    /\ partial_results = << >>
    /\ tender_data = Null
    /\ aresult = Null
    /\ quotes = EmptyMap
    /\ called = << >>
    /\ yielded = << >>

\* _postprocess_fields not called on its own
ReconcileIdle ==
    /\ rec_td = Null
    /\ rec_fb = Null
    /\ rec_pc = "idle"
    /\ rec_out = Null

\* extract_works not called on its own
WorksIdle == wk_td = Null /\ wk_pc = "idle" /\ wk_out = Null

\* _split_text not called on its own
SplitIdle ==
    /\ sp_impl = "none"
    /\ sp_in = << >>
    /\ sp_size = 0
    /\ sp_over = 0
    /\ sp_text = << >>
    /\ sp_start = 0
    /\ sp_chunks = << >>
    /\ sp_pc = "idle"

\* no SearchService in use
PriceIdle ==
    /\ apiKey = FALSE
    /\ cache = EmptyMap
    /\ llmCalls = EmptyMap
    /\ seen = EmptyMap
    /\ nLookups = 0
    /\ lastKey = << >>
    /\ lastRet = Null
    /\ lastLLM = 0
    /\ lastLater = FALSE

-----------------------------------------------------------------------------
(* The normalize / aggregate run:                                           *)
(*   init -> normalized -> renormalized -> merging -> done                  *)

MergeInit ==
    /\ dicts \in DictLists
    /\ mpc = "init"
    /\ nrm = Null
    /\ nrm2 = Null
    /\ kept = << >>
    /\ agg = Null
    /\ midx = 0
    /\ result = Null

\* _normalize_to_schema(x)
Normalize ==
    /\ mpc = "init"
    /\ nrm' = _normalize_to_schema(FirstDict)
    /\ mpc' = "normalized"
    /\ UNCHANGED <<dicts, nrm2, kept, agg, midx, result>>
    /\ UNCHANGED notMerge

\* _normalize_to_schema applied to its own output
Renormalize ==
    /\ mpc = "normalized"
    /\ nrm2' = _normalize_to_schema(nrm)
    /\ mpc' = "renormalized"
    /\ UNCHANGED <<dicts, nrm, kept, agg, midx, result>>
    /\ UNCHANGED notMerge

\* _aggregate_tender_dicts: nothing left after the filter, return the template
AggregateEmpty ==
    /\ mpc = "renormalized"
    /\ FilterDicts(dicts) = << >>
    /\ kept' = << >>
    /\ result' = _deep_copy_schema
    /\ mpc' = "done"
    /\ UNCHANGED <<dicts, nrm, nrm2, agg, midx>>
    /\ UNCHANGED notMerge

\* _aggregate_tender_dicts: agg = _deep_copy_schema()
AggregateStart ==
    /\ mpc = "renormalized"
    /\ FilterDicts(dicts) # << >>
    /\ kept' = FilterDicts(dicts)
    /\ agg' = _deep_copy_schema
    /\ midx' = 0
    /\ mpc' = "merging"
    /\ UNCHANGED <<dicts, nrm, nrm2, result>>
    /\ UNCHANGED notMerge

\* one iteration of: for d in dicts: agg = _merge_dicts(agg, d)
MergeStep ==
    /\ mpc = "merging"
    /\ midx < Len(kept)
    /\ agg' = _merge_dicts(agg, kept[midx + 1])
    /\ midx' = midx + 1
    /\ UNCHANGED <<dicts, mpc, nrm, nrm2, kept, result>>
    /\ UNCHANGED notMerge

\* return _normalize_to_schema(agg)
AggregateFinish ==
    /\ mpc = "merging"
    /\ midx = Len(kept)
    /\ result' = _normalize_to_schema(agg)
    /\ mpc' = "done"
    /\ UNCHANGED <<dicts, nrm, nrm2, kept, agg, midx>>
    /\ UNCHANGED notMerge

MergeNext ==
    \/ Normalize
    \/ Renormalize
    \/ AggregateEmpty
    \/ AggregateStart
    \/ MergeStep
    \/ AggregateFinish

InitMerge ==
    /\ MergeInit /\ ParseIdle /\ PriceIdle /\ AnalyzeIdle /\ ReconcileIdle
    /\ SplitIdle /\ WorksIdle /\ PerformIdle /\ RaceIdle /\ FallbackIdle
    /\ SummaryIdle /\ HeapIdle

SpecMerge == InitMerge /\ [][MergeNext]_vars

\* the stepwise run computes what the function computes
AggregateAgrees == mpc = "done" => result = _aggregate_tender_dicts(dicts)

-----------------------------------------------------------------------------
(* Properties of the normalizer and the merger *)

RECURSIVE Conforms(_, _)
\* out has every key path of tpl, a list at its lists, a scalar at its scalars
Conforms(tpl, out) ==
    IF IsDict(tpl) THEN
        /\ IsDict(out)
        /\ \A k \in DOMAIN tpl.v :
              k \in DOMAIN out.v /\ Conforms(tpl.v[k], out.v[k])
    ELSE IF IsList(tpl) THEN IsList(out)
    ELSE ~IsDict(out) /\ ~IsList(out)

\* C2: the output of normalize, and of aggregate, has every key path of the
\* schema template, with a list at every list-typed key and a scalar
\* (neither dict nor list) at every scalar-typed key.
C2_SchemaComplete ==
    /\ mpc # "init" => Conforms(UNIFIED_TENDER_SCHEMA, nrm)
    /\ mpc = "done" => Conforms(UNIFIED_TENDER_SCHEMA, result)

\* non-empty in the merger's sense: not null, not "", not []
NonEmpty(x) == x \notin {Null, EmptyStr, List(<< >>)}

RECURSIVE Keeps(_, _, _)
\* merging source e into b gave a: every non-empty value of b is still there
\* and non-empty, and changed only where e holds a non-empty value
Keeps(b, a, e) ==
    \A k \in DOMAIN b.v :
        NonEmpty(b.v[k]) =>
            /\ k \in DOMAIN a.v
            /\ NonEmpty(a.v[k])
            /\ a.v[k] # b.v[k] => (k \in DOMAIN e.v /\ NonEmpty(e.v[k]))
            /\ (IsDict(b.v[k]) /\ IsDict(a.v[k])
                    /\ k \in DOMAIN e.v /\ IsDict(e.v[k]))
                => Keeps(b.v[k], a.v[k], e.v[k])

\* C3: in a merge in processing order, a key that holds a non-empty value is
\* never emptied or removed by a later source; a later source changes it only
\* when that source's value for the key is itself non-empty.
C3_MergeKeepsNonEmpty ==
    [][MergeStep => Keeps(agg, agg', kept[midx + 1])]_vars

\* C4: aggregating [A, {}] yields normalize(A), list-typed keys included.
C4_MergeWithEmptyIsNormalize ==
    (mpc = "done" /\ Len(dicts) = 2 /\ IsDict(dicts[1])
        /\ dicts[2] = Dict(EmptyMap))
    => result = nrm

\* C5: normalize is idempotent: normalize(normalize(x)) = normalize(x), also
\* for x with extra keys, missing keys or wrong-typed values.
C5_NormalizeIdempotent == mpc \notin {"init", "normalized"} => nrm2 = nrm

\* x has an extra key, lacks template keys and has wrong-typed values, and
\* normalize has been applied twice
C5_Witness ==
    /\ mpc = "renormalized"
    /\ IsDict(FirstDict)
    /\ {"works", "title", "goods"} \subseteq DOMAIN FirstDict.v
    /\ IsDict(FirstDict.v["title"])
    /\ ~IsDict(FirstDict.v["goods"])
    /\ "customer" \notin DOMAIN FirstDict.v

RECURSIVE Defaulted(_, _, _)
\* wherever d holds a value of the wrong shape for a key of tpl, out holds
\* the template default
Defaulted(tpl, d, out) ==
    \A k \in (DOMAIN tpl.v) \cap (DOMAIN d.v) :
        LET tv == tpl.v[k]
            dv == d.v[k]
            ov == out.v[k]
        IN  /\ (IsList(tv) /\ ~IsList(dv)) => ov = tv
            /\ (IsDict(tv) /\ ~IsDict(dv)) => ov = tv
            /\ (~IsList(tv) /\ ~IsDict(tv) /\ (IsDict(dv) \/ IsList(dv)))
                => ov = tv
            /\ (IsDict(tv) /\ IsDict(dv)) => Defaulted(tv, dv, ov)

\* C6: where the source holds a wrong-shaped value for a template key (a
\* non-list at a list, a non-dict at a dict, a dict or list at a scalar),
\* normalize puts the template default there.
C6_WrongShapeDefaulted ==
    (mpc # "init" /\ IsDict(FirstDict))
    => Defaulted(UNIFIED_TENDER_SCHEMA, FirstDict, nrm)

RECURSIVE ExtrasKept(_, _, _)
\* out has exactly the keys of tpl and of d, and every key of d that tpl
\* lacks holds d's value, at this level and inside every dict section
ExtrasKept(tpl, d, out) ==
    /\ DOMAIN out.v = (DOMAIN tpl.v) \cup (DOMAIN d.v)
    /\ \A k \in DOMAIN d.v :
          IF k \notin DOMAIN tpl.v THEN out.v[k] = d.v[k]
          ELSE (IsDict(tpl.v[k]) /\ IsDict(d.v[k]))
                   => ExtrasKept(tpl.v[k], d.v[k], out.v[k])

\* C7: normalize copies every key of the source that the template lacks, at
\* the top level and inside every dict-typed section, with its value
\* unmodified; none is dropped.
C7_ExtraKeysKept ==
    (mpc # "init" /\ IsDict(FirstDict))
    => ExtrasKept(UNIFIED_TENDER_SCHEMA, FirstDict, nrm)

\* x has an extra key at the top level and one inside a section, and
\* normalize has been applied
C7_Witness ==
    /\ mpc = "normalized"
    /\ IsDict(FirstDict)
    /\ {"works", "legal"} \subseteq DOMAIN FirstDict.v
    /\ IsDict(FirstDict.v["legal"])
    /\ "extra_key" \in DOMAIN FirstDict.v["legal"].v

-----------------------------------------------------------------------------
(* Strings are sequences of one-character strings.  The model's alphabet is *)
(* ASCII: Cyrillic literals of the source are transliterated.               *)

UpperChars ==
    <<"A", "B", "C", "D", "E", "F", "G", "H", "I", "J", "K", "L", "M",
      "N", "O", "P", "Q", "R", "S", "T", "U", "V", "W", "X", "Y", "Z">>

LowerChars ==
    <<"a", "b", "c", "d", "e", "f", "g", "h", "i", "j", "k", "l", "m",
      "n", "o", "p", "q", "r", "s", "t", "u", "v", "w", "x", "y", "z">>

\* str.lower() on one character
LowerChar(c) ==
    IF \E i \in 1..Len(UpperChars) : UpperChars[i] = c
    THEN LowerChars[CHOOSE i \in 1..Len(UpperChars) : UpperChars[i] = c]
    ELSE c

\* str.lower()
Lower(s) == [i \in 1..Len(s) |-> LowerChar(s[i])]

RECURSIVE LStrip(_)
LStrip(s) == IF s # << >> /\ Head(s) = " " THEN LStrip(Tail(s)) ELSE s

RECURSIVE RStrip(_)
RStrip(s) ==
    IF s # << >> /\ s[Len(s)] = " " THEN RStrip(SubSeq(s, 1, Len(s) - 1))
    ELSE s

\* str.strip()
Strip(s) == RStrip(LStrip(s))

\* str.replace(" ", "")
RemoveSpaces(s) == SelectSeq(s, LAMBDA c : c # " ")

Digits == <<"0", "1", "2", "3", "4", "5", "6", "7", "8", "9">>

IsDigit(c) == \E i \in 1..10 : Digits[i] = c

DigitValue(c) == (CHOOSE i \in 1..10 : Digits[i] = c) - 1

RECURSIVE DigitsValue(_)
\* the number a run of decimal digits denotes
DigitsValue(s) ==
    IF s = << >> THEN 0
    ELSE 10 * DigitsValue(SubSeq(s, 1, Len(s) - 1)) + DigitValue(s[Len(s)])

\* the string is a non-empty run of decimal digits
AllDigits(s) == s # << >> /\ \A i \in 1..Len(s) : IsDigit(s[i])

-----------------------------------------------------------------------------
(* search_services.py: PriceInfo and SearchService._parse_llm_price         *)
(*                                                                          *)
(* Amounts (prices, confidence) are integers in twentieths of a unit, so    *)
(* that the midpoint (a + b) / 2 and the spread 0.3 * mid of whole-rouble   *)
(* prices are exact.                                                        *)

MAX_REASONABLE_UNIT_PRICE == 10000000

Twentieths(p) == 20 * p

Ceiling == Twentieths(MAX_REASONABLE_UNIT_PRICE)

sRUB == <<"R", "U", "B">>

\* the unit "sht" (pieces), the dataclass default and the heuristic's unit
sSht == <<"s", "h", "t">>

\* PriceInfo(ok=..., source=..., comment=...): the other fields at their
\* dataclass defaults
PriceInfo(ok, source, comment) ==
    [ok |-> ok, source |-> source, price_min |-> Null, price_max |-> Null,
     unit |-> sSht, currency |-> sRUB, confidence |-> 0, comment |-> comment]

\* float(str(x).replace(" ", "").replace(",", ".")): Null when it raises
FloatOfStr(x) ==
    CASE x.t = "num" -> x
      [] x.t = "str" ->
            IF AllDigits(RemoveSpaces(x.v))
            THEN Num(Twentieths(DigitsValue(RemoveSpaces(x.v))))
            ELSE Null
      [] OTHER -> Null

RECURSIVE _get_num(_, _)
\* the first of keys that is in d, is not None and converts to a float
_get_num(d, keys) ==
    IF keys = << >> THEN Null
    ELSE LET k == Head(keys)
         IN  IF k \in DOMAIN d /\ d[k] # Null /\ FloatOfStr(d[k]) # Null
             THEN FloatOfStr(d[k])
             ELSE _get_num(d, Tail(keys))

\* (x or default).strip() raises AttributeError: x is truthy and no string
StripRaises(x) == Truthy(x) /\ x.t # "str"

\* (x or default).strip() or default
StrippedOr(x, default) ==
    IF Truthy(x) /\ Strip(x.v) # << >> THEN Strip(x.v) ELSE default

\* float(obj.get("confidence", confidence)), TypeError and ValueError caught
ConfidenceOf(obj) ==
    LET x == Get(obj, "confidence")
    IN  CASE "confidence" \notin DOMAIN obj -> 0
          [] x.t = "num" -> x.v
          [] x.t = "bool" -> IF x.v THEN Twentieths(1) ELSE 0
          [] x.t = "str" /\ AllDigits(Strip(x.v)) ->
                Twentieths(DigitsValue(Strip(x.v)))
          [] OTHER -> 0

RECURSIVE TokensOf(_)
RECURSIVE DictTokens(_, _)
\* the numbers the regex \d[\d\s]{0,8}(?:[.,]\d+)? finds in the text of a
\* JSON value: a sign is not part of a match
TokensOf(x) ==
    CASE x.t = "num" -> <<IF x.v < 0 THEN 0 - x.v ELSE x.v>>
      [] x.t = "str" ->
            IF AllDigits(RemoveSpaces(x.v))
            THEN <<Twentieths(DigitsValue(RemoveSpaces(x.v)))>>
            ELSE << >>
      [] x.t = "list" ->
            IF x.v = << >> THEN << >>
            ELSE TokensOf(Head(x.v)) \o TokensOf(List(Tail(x.v)))
      [] x.t = "dict" -> DictTokens(x.v, DOMAIN x.v)
      [] OTHER -> << >>

DictTokens(m, keys) ==
    IF keys = {} THEN << >>
    ELSE LET k == CHOOSE kk \in keys : TRUE
         IN  TokensOf(m[k]) \o DictTokens(m, keys \ {k})

\* nums_raw: the numbers of the whole answer, its JSON span included
NumsRaw(c) == (IF c.obj = Null THEN << >> ELSE TokensOf(c.obj)) \o c.prose

\* the filter of the numeric-extraction fallback
Plausible(v) ==
    /\ ~(v < Twentieths(10))
    /\ ~(Twentieths(1900) <= v /\ v <= Twentieths(2100))
    /\ ~(v > Ceiling)

Max(a, b) == IF a >= b THEN a ELSE b

Min(a, b) == IF a <= b THEN a ELSE b

\* f"{comment} {extra}".strip()
AppendNote(comment, extra) ==
    IF comment = << >> THEN <<extra>> ELSE comment \o <<" ", extra>>

\* section 2.5 left out: the accepted range is returned as it is
Widen_unwidened(q) == q

\* section 2.5: a range with max/min < 1.5 is widened around its midpoint
Widen(q) ==
    IF q.ok /\ q.price_min # Null /\ q.price_max # Null /\ q.price_min.v > 0
       /\ 2 * q.price_max.v < 3 * q.price_min.v
    THEN LET mid == (q.price_min.v + q.price_max.v) \div 2
             min_spread == (3 * mid) \div 10
             current_spread == q.price_max.v - q.price_min.v
             spread == Max(current_spread, min_spread)
         IN  [q EXCEPT !.price_min = Num(Max(Twentieths(10), mid - spread)),
                       !.price_max = Num(Min(Ceiling, mid + spread)),
                       !.comment = AppendNote(q.comment, "<widened>")]
    ELSE q

\* section 2: the numeric-extraction fallback
Heuristic(q, c) ==
    LET values == SortSeq(SelectSeq(NumsRaw(c), Plausible),
                          LAMBDA a, b : a < b)
    IN  IF q.ok \/ values = << >> THEN q
        ELSE [q EXCEPT
                !.price_min = Num(values[1]),
                !.price_max = Num(IF Len(values) = 1 THEN values[1]
                                  ELSE values[2]),
                !.unit = IF q.unit = << >> THEN sSht ELSE q.unit,
                !.confidence = Min(IF q.confidence = 0 THEN 10
                                   ELSE q.confidence, 10),
                !.comment = AppendNote(q.comment, "<heuristic>"),
                !.ok = TRUE]

\* section 1: the fields read from the parsed JSON object (Null: no object)
FromJson(obj) ==
    LET d == IF obj = Null THEN EmptyMap ELSE obj.v
        pmin0 == _get_num(d, <<"price_min", "min">>)
        pmax0 == _get_num(d, <<"price_max", "max">>)
        pmin == IF pmin0 = Null THEN pmax0 ELSE pmin0
        pmax == IF pmax0 = Null THEN pmin0 ELSE pmax0
    IN  [ok |-> /\ pmin # Null /\ pmax # Null
                /\ pmin.v >= 0 /\ pmax.v >= pmin.v /\ pmax.v <= Ceiling
                /\ ~(pmin.v > Ceiling \/ pmax.v > Ceiling),
         source |-> "llm",
         price_min |-> pmin,
         price_max |-> pmax,
         unit |-> StrippedOr(Get(d, "unit"), << >>),
         currency |-> StrippedOr(Get(d, "currency"), sRUB),
         confidence |-> ConfidenceOf(d),
         comment |-> StrippedOr(Get(d, "comment"), << >>)]

\* the .strip() calls on unit, currency and comment are outside any try
ParseRaises(c) ==
    /\ ~c.blank
    /\ c.obj # Null
    /\ \E k \in {"unit", "currency", "comment"} : StripRaises(Get(c.obj.v, k))

\* the PriceInfo _parse_llm_price returns when it does not raise
_parse_llm_price(c) ==
    IF c.blank THEN
        PriceInfo(FALSE, "llm", <<"<empty answer>">>)
    ELSE LET q == Widen(Heuristic(FromJson(c.obj), c))
         IN  [q EXCEPT
                !.source = IF q.ok THEN "llm" ELSE "llm_error",
                !.comment = IF ~q.ok /\ q.comment = << >>
                            THEN <<"<no range>">> ELSE q.comment]

-----------------------------------------------------------------------------
(* LLM answers to the pricing prompt.  An answer is                         *)
(*   blank  it is empty or whitespace                                       *)
(*   obj    the dict that the {...} span parses to (after the repairs), or  *)
(*          Null when there is no span or it does not parse                 *)
(*   prose  the numbers that the text around (or instead of) the object     *)
(*          holds, as the regex finds them                                  *)

MaxTokens == 3

\* a key the object does not have
Absent == [t |-> "absent", v |-> 0]

\* the dict with the fields of rec that are not Absent
Obj(rec) == Dict([k \in {kk \in DOMAIN rec : rec[kk] # Absent} |-> rec[k]])

Roubles(p) == Num(Twentieths(p))

JsonPrices ==
    {Roubles(p) : p \in {0, 1, 5, 8, 10, 100, 110, 150, 2000,
                         9999999, 10000000, 10000001}}
    \cup {Num(0 - Twentieths(100)), Absent, Null, Bool(TRUE),
          Str(<<"1", "0", "0">>), Str(<<"1", " ", "0", "0", "0">>),
          Str(<<"a">>), List(<<Roubles(100)>>)}

TextFields ==
    {Absent, Null, EmptyStr, Str(<<" ">>), Str(<<" ", "m", " ">>), Num(0),
     Num(5), Bool(TRUE), List(<< >>), List(<<sT1>>), One("k", sT1)}

Confidences ==
    {Absent, Null, Num(14), Num(4), Bool(TRUE), Str(<<"1">>), Str(<<"a">>),
     List(<<Num(14)>>)}

ProseTokens ==
    {Twentieths(p) : p \in {5, 10, 100, 150, 2024, 10000000, 10000001}}

Proses == UNION {[1..n -> ProseTokens] : n \in 0..MaxTokens}

Answer(obj, prose) == [blank |-> FALSE, obj |-> obj, prose |-> prose]

Contents ==
    {[blank |-> TRUE, obj |-> Null, prose |-> << >>]}
    \cup {Answer(Null, pr) : pr \in Proses}
    \cup {Answer(Obj([price_min |-> a, price_max |-> b]), pr) :
            a \in JsonPrices, b \in JsonPrices,
            pr \in {<< >>, <<Twentieths(150)>>}}
    \cup {Answer(Obj([price_min |-> a, min |-> b, max |-> c]), << >>) :
            a \in {Absent, Null, Str(<<"a">>)},
            b \in {Absent, Roubles(100)},
            c \in {Absent, Roubles(110), Roubles(300)}}
    \cup {Answer(Obj([price_min |-> Roubles(a), price_max |-> Roubles(200),
                      unit |-> u, comment |-> cm, confidence |-> cf]), << >>) :
            a \in {100, 300}, u \in TextFields,
            cm \in {Absent, EmptyStr, Str(<<"n">>), Num(5)},
            cf \in Confidences}
    \cup {Answer(Obj([price_min |-> Roubles(100), price_max |-> Roubles(200),
                      currency |-> cu]), << >>) : cu \in TextFields}

-----------------------------------------------------------------------------
(* One call of _parse_llm_price *)

ParseInit ==
    /\ content \in Contents
    /\ ppc = "start"
    /\ quote = Null

\* the call returns a PriceInfo
ParseReturn ==
    /\ ppc = "start"
    /\ ~ParseRaises(content)
    /\ quote' = _parse_llm_price(content)
    /\ ppc' = "returned"
    /\ UNCHANGED content
    /\ UNCHANGED notParse

\* the call raises AttributeError
ParseRaise ==
    /\ ppc = "start"
    /\ ParseRaises(content)
    /\ ppc' = "raised"
    /\ UNCHANGED <<content, quote>>
    /\ UNCHANGED notParse

ParseNext == ParseReturn \/ ParseRaise

InitParse ==
    /\ ParseInit /\ MergeIdle /\ PriceIdle /\ AnalyzeIdle /\ ReconcileIdle
    /\ SplitIdle /\ WorksIdle /\ PerformIdle /\ RaceIdle /\ FallbackIdle
    /\ SummaryIdle /\ HeapIdle

SpecParse == InitParse /\ [][ParseNext]_vars

\* C8: every quote _parse_llm_price returns with ok = true has
\* 0 <= price_min <= price_max <= the sanity ceiling, on the JSON path, on
\* the numeric-extraction path and after narrow-range widening.
C8_OkRangeWithinCeiling ==
    (ppc = "returned" /\ quote.ok) =>
        /\ quote.price_min # Null /\ quote.price_max # Null
        /\ 0 <= quote.price_min.v
        /\ quote.price_min.v <= quote.price_max.v
        /\ quote.price_max.v <= Ceiling

\* C9: _parse_llm_price returns a quote without raising for every string:
\* empty, prose, JSON above the ceiling, and JSON objects whatever the types
\* of their field values.
C9_ParseNeverRaises == ppc # "raised"

-----------------------------------------------------------------------------
(* search_services.py: SearchService.search_prices and its cache *)

MaxLookups == 3

\* "Rossiya", the default of the city parameter
sRossiya == <<"R", "o", "s", "s", "i", "y", "a">>

\* task = (task or "").strip()
CleanTask(task) == Strip(task)

\* city = (city or "").strip() or "Rossiya"
CleanCity(city) == IF Strip(city) = << >> THEN sRossiya ELSE Strip(city)

\* cache_key without .lower()
cache_key_as_given(task, city) == <<CleanTask(task), CleanCity(city)>>

\* cache_key = (task.lower(), city.lower())
cache_key(task, city) == <<Lower(CleanTask(task)), Lower(CleanCity(city))>>

\* the task and city arguments of the lookups
Tasks == {<< >>, <<" ">>, <<"A">>, <<" ", "a">>, <<"b", " ">>}

Cities == {<< >>, <<"K">>, <<"k", " ">>, sRossiya}

\* the answers of the LLM to the pricing prompt
PriceContents ==
    <<[blank |-> TRUE, obj |-> Null, prose |-> << >>],
      Answer(Obj([price_min |-> Roubles(100), price_max |-> Roubles(200)]),
             << >>),
      Answer(Obj([price_min |-> Roubles(100), price_max |-> Roubles(110)]),
             << >>),
      Answer(Obj([price_min |-> Roubles(100), price_max |-> Roubles(200),
                  unit |-> Num(5)]), << >>),
      Answer(Null, <<Twentieths(5)>>),
      Answer(Obj([price_min |-> Roubles(0), price_max |-> Roubles(200)]),
             << >>)>>

\* what the LLM side does on a cache miss: provider.generate raises, or an
\* answer comes back (the provider exists once the service is constructed)
PriceReplies ==
    <<[kind |-> "generate_raises", c |-> Null]>>
    \o [i \in 1..Len(PriceContents) |->
            [kind |-> "content", c |-> PriceContents[i]]]

LLMReplies == {PriceReplies[i] : i \in 1..Len(PriceReplies)}

\* _ask_llm_price then _parse_llm_price inside the try of search_prices
LookupResult(reply) ==
    CASE reply.kind = "generate_raises" ->
            _parse_llm_price([blank |-> TRUE, obj |-> Null, prose |-> << >>])
      [] reply.kind = "content" ->
            IF ParseRaises(reply.c)
            THEN PriceInfo(FALSE, "llm_error", <<"<llm request error>">>)
            ELSE _parse_llm_price(reply.c)

\* self._cache.setdefault(cache_key, info): the first write is kept
Store_first(c, key, info) ==
    [k \in (DOMAIN c) \cup {key} |->
        IF k \in DOMAIN c THEN c[k] ELSE info]

\* self._cache[cache_key] = info
Store(c, key, info) ==
    [k \in (DOMAIN c) \cup {key} |-> IF k = key THEN info ELSE c[k]]

\* the key the history variables are indexed by: task and city trimmed and
\* lower-cased
NormalizedKey(task, city) == <<Lower(Strip(task)), Lower(CleanCity(city))>>

\* history of one call of search_prices(task, city) that returned ret after
\* n calls of provider.generate
Record(task, city, ret, n) ==
    LET key == NormalizedKey(task, city)
    IN  /\ nLookups' = nLookups + 1
        /\ lastKey' = key
        /\ lastRet' = ret
        /\ lastLLM' = n
        /\ lastLater' = (key \in DOMAIN seen)
        /\ seen' = IF key \in DOMAIN seen THEN seen ELSE Store(seen, key, ret)
        /\ llmCalls' = Store(llmCalls, key, Get2(llmCalls, key) + n)

PriceInit ==
    /\ apiKey \in BOOLEAN
    /\ cache = EmptyMap
    /\ llmCalls = EmptyMap
    /\ seen = EmptyMap
    /\ nLookups = 0
    /\ lastKey = << >>
    /\ lastRet = Null
    /\ lastLLM = 0
    /\ lastLater = FALSE

\* if not task: return PriceInfo(ok=False, source="search_service", ...)
SearchEmptyTask ==
    \E task \in Tasks, city \in Cities :
        /\ nLookups < MaxLookups
        /\ CleanTask(task) = << >>
        /\ Record(task, city,
                  PriceInfo(FALSE, "search_service", <<"<no task>">>), 0)
        /\ UNCHANGED <<apiKey, cache>>
        /\ UNCHANGED notPrice

\* if cache_key in self._cache: return a copy tagged source="cache"
SearchCacheHit ==
    \E task \in Tasks, city \in Cities :
        /\ nLookups < MaxLookups
        /\ CleanTask(task) # << >>
        /\ cache_key(task, city) \in DOMAIN cache
        /\ Record(task, city,
                  [cache[cache_key(task, city)] EXCEPT !.source = "cache"], 0)
        /\ UNCHANGED <<apiKey, cache>>
        /\ UNCHANGED notPrice

\* if not self._openrouter_api_key: cache and return source="none"
SearchNoApiKey ==
    \E task \in Tasks, city \in Cities :
        /\ nLookups < MaxLookups
        /\ CleanTask(task) # << >>
        /\ cache_key(task, city) \notin DOMAIN cache
        /\ ~apiKey
        /\ LET info == PriceInfo(FALSE, "none", <<"<no api key>">>)
           IN  /\ cache' = Store(cache, cache_key(task, city), info)
               /\ Record(task, city, info, 0)
        /\ UNCHANGED apiKey
        /\ UNCHANGED notPrice

\* the cache miss: one LLM request, parse, cache and return
SearchLLM ==
    \E task \in Tasks, city \in Cities, reply \in LLMReplies :
        /\ nLookups < MaxLookups
        /\ CleanTask(task) # << >>
        /\ cache_key(task, city) \notin DOMAIN cache
        /\ apiKey
        /\ LET info == LookupResult(reply)
           IN  /\ cache' = Store(cache, cache_key(task, city), info)
               /\ Record(task, city, info, 1)
        /\ UNCHANGED apiKey
        /\ UNCHANGED notPrice

PriceNext ==
    \/ SearchEmptyTask
    \/ SearchCacheHit
    \/ SearchNoApiKey
    \/ SearchLLM

InitPrice ==
    /\ PriceInit /\ MergeIdle /\ ParseIdle /\ AnalyzeIdle /\ ReconcileIdle
    /\ SplitIdle /\ WorksIdle /\ PerformIdle /\ RaceIdle /\ FallbackIdle
    /\ SummaryIdle /\ HeapIdle

SpecPrice == InitPrice /\ [][PriceNext]_vars

\* the quote ret is a copy of the quote first in every field but source,
\* tagged source = "cache"
CachedCopyOf(ret, first) ==
    /\ ret.source = "cache"
    /\ ret.ok = first.ok
    /\ ret.price_min = first.price_min
    /\ ret.price_max = first.price_max
    /\ ret.unit = first.unit
    /\ ret.currency = first.currency
    /\ ret.confidence = first.confidence
    /\ ret.comment = first.comment

\* the LLM was called at most once for every normalized key
OneCallPerKey == \A k \in DOMAIN llmCalls : llmCalls[k] <= 1

\* the last lookup was not the first of its key: a cache answer, no LLM call
LaterFromCache ==
    /\ lastLLM = 0
    /\ CachedCopyOf(lastRet, seen[lastKey])

\* C10 as stated: over any sequence of search_prices calls the LLM is called
\* at most once per normalized key, and every later lookup of a key, also
\* after a failed first lookup, makes no LLM call and returns the first
\* lookup's quote tagged source = "cache".
C10_CacheEveryLaterLookup ==
    /\ OneCallPerKey
    /\ lastLater => LaterFromCache

\* C10 amended: the same, for the lookups whose task is not blank (a blank
\* task is answered with source = "search_service" and never cached).
C10_CacheLaterLookupOfTask ==
    /\ OneCallPerKey
    /\ (lastLater /\ lastKey[1] # << >>) => LaterFromCache

\* a later lookup, spelled differently or not, of a task whose first lookup
\* called the LLM and ended in a failure
C10_Witness ==
    /\ lastLater
    /\ lastKey[1] # << >>
    /\ llmCalls[lastKey] = 1
    /\ ~seen[lastKey].ok

-----------------------------------------------------------------------------
(* ai_services.py: _beautify_title and _postprocess_fields *)

\* what an operation yields when it raises instead of returning
Raised == [t |-> "raised", v |-> 0]

StartsWith(s, p) == Len(s) >= Len(p) /\ SubSeq(s, 1, Len(p)) = p

\* p in s
Contains(s, p) ==
    \E i \in 1..(Len(s) - Len(p) + 1) : SubSeq(s, i, i + Len(p) - 1) = p

\* s[n:]
Drop(s, n) == SubSeq(s, n + 1, Len(s))

\* s[:n]
Take(s, n) == SubSeq(s, 1, Min(n, Len(s)))

\* str.upper() on one character
UpperChar(c) ==
    IF \E i \in 1..Len(LowerChars) : LowerChars[i] = c
    THEN UpperChars[CHOOSE i \in 1..Len(LowerChars) : LowerChars[i] = c]
    ELSE c

\* the words _beautify_title looks for, transliterated
sTechnicalTask ==
    <<"t", "e", "h", "n", "i", "c", "h", "e", "s", "k", "o", "e", " ", "z",
      "a", "d", "a", "n", "i", "e">>

sNa == <<"n", "a">>

sNaSpace == <<"n", "a", " ">>

sPostavk == <<"p", "o", "s", "t", "a", "v", "k">>

sOkazan == <<"o", "k", "a", "z", "a", "n">>

sVypoln == <<"v", "y", "p", "o", "l", "n">>

sPostavka == <<"P", "o", "s", "t", "a", "v", "k", "a", " ">>

sOkazanie == <<"O", "k", "a", "z", "a", "n", "i", "e", " ">>

sVypolnenie == <<"V", "y", "p", "o", "l", "n", "e", "n", "i", "e", " ">>

\* re.search(r"na\s+(.+)", t, IGNORECASE): where the pattern matches in t
NaMatches(t) ==
    {i \in 1..(Len(t) - 3) :
        Lower(SubSeq(t, i, i + 1)) = sNa /\ t[i + 2] = " "}

\* m.group(1).strip() of the leftmost match, t itself when there is none
AfterNa(t) ==
    IF NaMatches(t) = {} THEN t
    ELSE LET i == CHOOSE j \in NaMatches(t) : \A k \in NaMatches(t) : j <= k
         IN  Strip(Drop(t, i + 1))

\* rest.split(" ", 1)[1]: Raised (IndexError) when rest has no space
AfterFirstSpace(rest) ==
    IF \A i \in 1..Len(rest) : rest[i] # " " THEN Raised
    ELSE Str(Drop(rest, CHOOSE i \in 1..Len(rest) :
                            rest[i] = " " /\ \A j \in 1..(i - 1) : rest[j] # " "))

\* the "na ..." rule: "na postavku X" -> "Postavka X"
RewordNa(t) ==
    LET rest == Strip(Drop(t, 3))
        rlow == Lower(rest)
        word == CASE StartsWith(rlow, sPostavk) -> sPostavka
                  [] StartsWith(rlow, sOkazan) -> sOkazanie
                  [] StartsWith(rlow, sVypoln) -> sVypolnenie
                  [] OTHER -> << >>
    IN  IF word # << >>
        THEN IF AfterFirstSpace(rest) = Raised THEN Raised
             ELSE Str(word \o AfterFirstSpace(rest).v)
        ELSE IF rest = << >> THEN Str(<< >>)
        ELSE Str(<<UpperChar(rest[1])>> \o Tail(rest))

RECURSIVE DropNumbering(_)
\* re.sub(r"^[\d\.\)\s]+", "", t)
DropNumbering(t) ==
    IF t # << >> /\ (IsDigit(Head(t)) \/ Head(t) \in {".", ")", " "})
    THEN DropNumbering(Tail(t))
    ELSE t

\* _beautify_title(title) for a string title: a Str, or Raised
_beautify_title(title) ==
    LET t0 == Strip(title)
        t1 == IF StartsWith(Lower(t0), sTechnicalTask) THEN AfterNa(t0) ELSE t0
        t2 == IF StartsWith(Lower(t1), sNaSpace) THEN RewordNa(t1) ELSE Str(t1)
    IN  IF t0 = << >> THEN Str(<< >>)
        ELSE IF t2 = Raised THEN Raised
        ELSE Str(Take(Strip(DropNumbering(t2.v)), 200))

\* (x or "").strip(): a Str, or Raised (AttributeError) when x is truthy and
\* not a string
StrOf(x) ==
    IF StripRaises(x) THEN Raised
    ELSE IF Truthy(x) THEN Str(Strip(x.v))
    ELSE EmptyStr

\* d.get(k) for a dict value d
Field(d, k) == Get(d.v, k)

\* d[k] = x for a dict value d
Put(d, k, x) == Dict(Store(d.v, k, x))

\* d.get(k) or {}
Section(d, k) == IF Truthy(Field(d, k)) THEN Field(d, k) ELSE Dict(EmptyMap)

\* (d.get(k) or {}).get(...) raises AttributeError: d[k] is truthy, no dict
BadSection(d, k) == Truthy(Field(d, k)) /\ ~IsDict(Field(d, k))

\* d.get(k, {}).get(...) raises AttributeError: d[k] is there and no dict
BadDefaultSection(d, k) == k \in DOMAIN d.v /\ ~IsDict(d.v[k])

\* the tokens _looks_like_contacts looks for, transliterated
ContactTokens ==
    {<<"t", "e", "l">>, <<"p", "h", "o", "n", "e">>, <<"f", "a", "k", "s">>,
     <<"e", "-", "m", "a", "i", "l">>,
     <<"e", "m", "a", "i", "l">>}

\* a character the regex class \w matches
IsWordChar(c) ==
    \/ IsDigit(c)
    \/ c = "_"
    \/ \E i \in 1..Len(LowerChars) : c \in {LowerChars[i], UpperChars[i]}

\* re.search(r"\+7\d{10}", s)
HasPlus7(s) ==
    \E i \in 1..(Len(s) - 11) :
        /\ s[i] = "+"
        /\ s[i + 1] = "7"
        /\ \A j \in 2..11 : IsDigit(s[i + j])

\* re.search(r"\b8\d{10}\b", s)
HasEight(s) ==
    \E i \in 1..(Len(s) - 10) :
        /\ s[i] = "8"
        /\ \A j \in 1..10 : IsDigit(s[i + j])
        /\ i = 1 \/ ~IsWordChar(s[i - 1])
        /\ i + 10 = Len(s) \/ ~IsWordChar(s[i + 11])

_looks_like_contacts(s) ==
    /\ s # << >>
    /\ \/ \E tok \in ContactTokens : Contains(Lower(s), tok)
       \/ Contains(Lower(s), <<"@">>)
       \/ HasPlus7(Lower(s))
       \/ HasEight(Lower(s))

\* _trim(v, max_len = 260) for a string v
_trim(v) ==
    IF Len(Strip(v)) <= 260 THEN Strip(v)
    ELSE RStrip(Take(Strip(v), 257)) \o <<".", ".", ".">>

\* the contacts choice with the fallback's value tried first
PickContacts_fallback_first(llm_contacts, fb_contacts) ==
    IF _looks_like_contacts(fb_contacts) THEN fb_contacts
    ELSE IF _looks_like_contacts(llm_contacts) THEN llm_contacts
    ELSE << >>

\* td["customer"]["contacts"]: the record's contacts if they look like
\* contacts, else the fallback's if they do, else ""
PickContacts(llm_contacts, fb_contacts) ==
    IF _looks_like_contacts(llm_contacts) THEN llm_contacts
    ELSE IF _looks_like_contacts(fb_contacts) THEN fb_contacts
    ELSE << >>

\* the cleaned field: the record's value if it has one, else the fallback's
FirstTitle(mine, theirs) ==
    IF mine.v # << >> THEN _beautify_title(mine.v)
    ELSE IF theirs.v # << >> THEN _beautify_title(theirs.v)
    ELSE EmptyStr

\* cust[k] = the fallback's value if the record has none
FillFrom(cust, fb_cust, k) ==
    IF StrOf(Field(cust, k)).v = << >> /\ StrOf(Field(fb_cust, k)).v # << >>
    THEN Put(cust, k, StrOf(Field(fb_cust, k)))
    ELSE cust

\* _postprocess_fields raises: a section that is no dict, a text field that is
\* truthy and no string, or _beautify_title raising
PostprocessRaises(td, fb) ==
    \/ \E k \in {"object", "customer"} : BadSection(td, k) \/ BadSection(fb, k)
    \/ BadDefaultSection(fb, "customer")
    \/ \E k \in {"title", "description"} : StrOf(Field(td, k)) = Raised
    \/ StrOf(Field(fb, "title")) = Raised
    \/ \E k \in {"name", "address"} :
        \/ StrOf(Field(Section(td, "object"), k)) = Raised
        \/ StrOf(Field(Section(td, "customer"), k)) = Raised
        \/ StrOf(Field(Section(fb, "customer"), k)) = Raised
    \/ StrOf(Field(Section(fb, "object"), "name")) = Raised
    \/ StrOf(Field(Section(td, "customer"), "contacts")) = Raised
    \/ StrOf(Field(Section(fb, "customer"), "contacts")) = Raised
    \/ FirstTitle(StrOf(Field(td, "title")), StrOf(Field(fb, "title"))) = Raised
    \/ FirstTitle(StrOf(Field(Section(td, "object"), "name")),
                  StrOf(Field(Section(fb, "object"), "name"))) = Raised

\* _postprocess_fields(tender_data, fallback_data): the record, or Raised
_postprocess_fields(td, fb) ==
    LET obj == Section(td, "object")
        fb_obj == Section(fb, "object")
        fb_cust == Section(fb, "customer")
        cust == FillFrom(FillFrom(Section(td, "customer"), fb_cust, "name"),
                         fb_cust, "address")
        llm_contacts == StrOf(Field(cust, "contacts")).v
        fb_contacts == StrOf(Field(fb_cust, "contacts")).v
        contacts == PickContacts(llm_contacts, fb_contacts)
        obj2 == Put(Put(obj, "name",
                        FirstTitle(StrOf(Field(obj, "name")),
                                   StrOf(Field(fb_obj, "name")))),
                    "address", Str(_trim(StrOf(Field(obj, "address")).v)))
        cust2 == Put(Put(Put(cust, "contacts", Str(contacts)),
                         "name", Str(_trim(StrOf(Field(cust, "name")).v))),
                     "address", Str(_trim(StrOf(Field(cust, "address")).v)))
        td1 == Put(td, "title", FirstTitle(StrOf(Field(td, "title")),
                                           StrOf(Field(fb, "title"))))
        td2 == Put(Put(td1, "object", obj2), "customer", cust2)
    IN  IF PostprocessRaises(td, fb) THEN Raised
        ELSE Put(td2, "description",
                 Str(_trim(StrOf(Field(td, "description")).v)))

-----------------------------------------------------------------------------
(* ai_services.py: _extract_works_for_pricing and _apply_market_analysis.   *)
(* Volumes are whole numbers; prices and subtotals are in twentieths.       *)

\* x or [], then the isinstance(x, list) guard: the items to walk
ItemsOf(x) == IF Truthy(x) /\ IsList(x) THEN x.v ELSE << >>

\* a or b
Or(a, b) == IF Truthy(a) THEN a ELSE b

\* float(str(volume).replace(" ", "").replace(",", ".")), 1.0 when it raises
VolumeOf(x) ==
    CASE x.t = "num" -> x.v
      [] x.t = "str" /\ AllDigits(RemoveSpaces(x.v)) ->
            DigitsValue(RemoveSpaces(x.v))
      [] OTHER -> 1

\* add_entry raises AttributeError: a truthy name that is no string, or a
\* name of three characters or more with a truthy unit that is no string
EntryRaises(it) ==
    /\ IsDict(it)
    /\ Truthy(Field(it, "name"))
    /\ \/ Field(it, "name").t # "str"
       \/ /\ Len(Strip(Field(it, "name").v)) >= 3
          /\ StripRaises(Field(it, "unit"))

\* results.append({"name": ..., "volume": ..., "unit": ...})
Entry(name, volume, unit) ==
    Dict([name |-> Str(Strip(name.v)),
          volume |-> Num(VolumeOf(volume)),
          unit |-> Str(StrippedOr(unit, sSht))])

\* add_entry(it.get("name"), it.get(k1) or it.get(k2) or 1, it.get("unit")):
\* the entries one list item adds to results
add_entry(it, k1, k2) ==
    IF ~IsDict(it) \/ ~Truthy(Field(it, "name")) THEN << >>
    ELSE IF Len(Strip(Field(it, "name").v)) < 3 THEN << >>
    ELSE <<Entry(Field(it, "name"),
                 Or(Field(it, k1), Or(Field(it, k2), Num(1))),
                 Field(it, "unit"))>>

RECURSIVE EntriesOf(_, _, _)
\* the entries of one source list, in order
EntriesOf(items, k1, k2) ==
    IF items = << >> THEN << >>
    ELSE add_entry(Head(items), k1, k2) \o EntriesOf(Tail(items), k1, k2)

\* the five places _extract_works_for_pricing reads, in its order, given
\* the goods, technical and technical.works sections
SourcesOf(td, goods, tech, block) ==
    <<[items |-> ItemsOf(Field(goods, "items")),
       k1 |-> "quantity", k2 |-> "volume"],
      [items |-> ItemsOf(Field(block, "works_list")),
       k1 |-> "volume", k2 |-> "quantity"],
      [items |-> ItemsOf(Field(block, "items")),
       k1 |-> "volume", k2 |-> "quantity"],
      [items |-> ItemsOf(Field(tech, "items")),
       k1 |-> "volume", k2 |-> "quantity"],
      [items |-> ItemsOf(Field(td, "works")),
       k1 |-> "volume", k2 |-> "quantity"]>>

WorkSources(td) ==
    SourcesOf(td, Section(td, "goods"), Section(td, "technical"),
              Section(Section(td, "technical"), "works"))

\* goods, technical or technical.works is truthy and no dict
SectionsRaise(td) ==
    IF \E k \in {"goods", "technical"} : BadSection(td, k) THEN TRUE
    ELSE BadSection(Section(td, "technical"), "works")

\* add_entry raises on an item of one of the sources
SourcesRaise(srcs) ==
    \E n \in 1..Len(srcs) :
        \E i \in 1..Len(srcs[n].items) : EntryRaises(srcs[n].items[i])

\* _extract_works_for_pricing raises
ExtractRaises(td) ==
    IF SectionsRaise(td) THEN TRUE ELSE SourcesRaise(WorkSources(td))

RECURSIVE EntriesOfSources(_)
\* the entries of the sources, in order
EntriesOfSources(srcs) ==
    IF srcs = << >> THEN << >>
    ELSE EntriesOf(Head(srcs).items, Head(srcs).k1, Head(srcs).k2)
         \o EntriesOfSources(Tail(srcs))

\* _extract_works_for_pricing(tender_data): the list of entries, or Raised
_extract_works_for_pricing(td) ==
    IF ExtractRaises(td) THEN Raised
    ELSE List(EntriesOfSources(WorkSources(td)))

\* city or "Rossiya"
CityArg(city) == IF Truthy(city) THEN city.v ELSE sRossiya

\* the key under which the service of one enrichment caches a work's quote
WorkKey(w, city) == cache_key(Field(w, "name").v, CityArg(city))

\* a calculated row whose subtotals leave out the volume
Calculated_unit_subtotal(name, volume, unit, q, pmn, pmx) ==
    Dict([status |-> Str(<<"calculated">>),
          work_name |-> Str(name),
          volume |-> Num(volume),
          unit |-> Str(IF q.unit # << >> THEN q.unit ELSE unit),
          price_min |-> Num(pmn),
          price_max |-> Num(pmx),
          subtotal_min |-> Num(pmn),
          subtotal_max |-> Num(pmx),
          currency |-> Str(IF q.currency # << >> THEN q.currency ELSE sRUB),
          confidence |-> Num(10)])

\* the row of a work whose price lookup gave a usable quote
Calculated(name, volume, unit, q, pmn, pmx) ==
    Dict([status |-> Str(<<"calculated">>),
          work_name |-> Str(name),
          volume |-> Num(volume),
          unit |-> Str(IF q.unit # << >> THEN q.unit ELSE unit),
          price_min |-> Num(pmn),
          price_max |-> Num(pmx),
          subtotal_min |-> Num(pmn * volume),
          subtotal_max |-> Num(pmx * volume),
          currency |-> Str(IF q.currency # << >> THEN q.currency ELSE sRUB),
          confidence |-> Num(10)])

\* the row of a work without a usable quote
NoData(name, volume, unit, q) ==
    Dict([status |-> Str(<<"no_data">>),
          work_name |-> Str(name),
          volume |-> Num(volume),
          unit |-> Str(unit),
          comment |-> Str(IF q.comment # << >> THEN q.comment
                          ELSE <<"<not enough data>">>)])

\* the works_breakdown row of a work, given its cleaned fields and its quote
RowFrom(name, volume, unit, q) ==
    IF q.ok /\ q.price_min # Null
    THEN Calculated(name, volume, unit, q, q.price_min.v,
                    IF Truthy(q.price_max) THEN q.price_max.v
                    ELSE q.price_min.v)
    ELSE NoData(name, volume, unit, q)

\* the works_breakdown row of one work, given the quote of its price lookup
RowOf(w, q) ==
    RowFrom(Strip(Field(w, "name").v),
            VolumeOf(Or(Field(w, "volume"), Num(1))),
            StrippedOr(Field(w, "unit"), sSht), q)

\* the rows of the works that have a name
RowsOf(works, city, answers) ==
    [i \in 1..Len(works) |-> RowOf(works[i], answers[WorkKey(works[i], city)])]

\* if not name: continue
Named(works) ==
    SelectSeq(works, LAMBDA w : Strip(Field(w, "name").v) # << >>)

RECURSIVE SumOf(_, _)
\* total += subtotal over the calculated rows
SumOf(rows, k) ==
    IF rows = << >> THEN 0
    ELSE (IF k \in DOMAIN Head(rows).v THEN Head(rows).v[k].v ELSE 0)
         + SumOf(Tail(rows), k)

\* round(total, 2) if total else ""
Rounded(total) == IF total = 0 THEN EmptyStr ELSE Num(total)

\* the performers_by_task entry built from one PerformerInfo for a row
PerformerEntry(perf, r) ==
    Dict([name |-> Str(perf.name),
          type |-> Str(<<"supplier">>),
          profile_url |-> Str(perf.site),
          reviews |-> Dict([average_rating |->
                                IF perf.rating # Null THEN perf.rating
                                ELSE EmptyStr,
                            reviews |-> List(<< >>)]),
          prices |-> List(<<Dict([value_min |-> Field(r, "price_min"),
                                  value_max |-> Field(r, "price_max"),
                                  unit |-> Str(Strip(Field(r, "unit").v)),
                                  currency |-> Str(StrippedOr(
                                      Or(Field(r, "currency"), Str(sRUB)),
                                      sRUB)),
                                  source |-> Str(<<"places_api">>)])>>),
          contacts |-> Dict([phone |-> Str(perf.phone),
                             email |-> Str(perf.email)])])

\* the last row of a work name: a later row replaces an earlier entry
LastRow(rows, n) ==
    rows[CHOOSE i \in 1..Len(rows) :
            /\ Field(rows[i], "work_name").v = n
            /\ \A j \in (i + 1)..Len(rows) : Field(rows[j], "work_name").v # n]

\* performers_by_task: the rows' work names that have performers
PerformersByTask(rows, perfs) ==
    [n \in {m \in {Field(rows[i], "work_name").v : i \in 1..Len(rows)} :
                perfs[m] # << >>} |->
        List([i \in 1..Len(perfs[n]) |->
                PerformerEntry(perfs[n][i], LastRow(rows, n))])]

\* d.setdefault(k, {})
SetDefault(d, k) == IF k \in DOMAIN d.v THEN d.v[k] ELSE Dict(EmptyMap)

\* tender.setdefault("market_analysis", {}) and
\* ma.setdefault("minimum_sum_calculation", {}) give something that is no dict
MarketSectionRaises(td) ==
    IF BadDefaultSection(td, "market_analysis") THEN TRUE
    ELSE BadDefaultSection(SetDefault(td, "market_analysis"),
                           "minimum_sum_calculation")

\* calc after the totals, the currency, the confidence and the rows are set
WithTotals(calc, rows) ==
    Dict([k \in DOMAIN calc.v \cup {"total_min", "total_max", "currency",
                                    "confidence", "works_breakdown"} |->
            CASE k = "total_min" -> Rounded(SumOf(rows, "subtotal_min"))
              [] k = "total_max" -> Rounded(SumOf(rows, "subtotal_max"))
              [] k = "currency" -> Str(sRUB)
              [] k = "confidence" -> Str(<<"0", ".", "5">>)
              [] k = "works_breakdown" -> List(rows)
              [] OTHER -> calc.v[k]])

\* if performers_by_task: ma["performers_by_task"] = performers_by_task
WithPerformers(ma, byTask) ==
    IF DOMAIN byTask # {} THEN Put(ma, "performers_by_task", Dict(byTask))
    ELSE ma

\* ma after _apply_market_analysis has written the rows and the performers
MarketOf(ma, city, rows, perfs) ==
    Put(Put(WithPerformers(
                Put(ma, "minimum_sum_calculation",
                    WithTotals(SetDefault(ma, "minimum_sum_calculation"),
                               rows)),
                PerformersByTask(rows, perfs)),
            "city", Or(city, EmptyStr)),
        "search_engine", Str(<<"Tender Search Engine">>))

\* _apply_market_analysis once the works are extracted
EnrichWith(td, city, provider, works, answers, perfs) ==
    IF works = << >> THEN td
    ELSE IF ~provider THEN Raised
    ELSE IF MarketSectionRaises(td) THEN Raised
    ELSE Put(td, "market_analysis",
             MarketOf(SetDefault(td, "market_analysis"), city,
                      RowsOf(Named(works), city, answers), perfs))

\* _apply_market_analysis(tender, city): the tender after the call, or Raised.
\* provider: SearchService() can be constructed; answers: the quote
\* search_prices gives per cache key; perfs: what search_performers returns
\* per work name
_apply_market_analysis(td, city, provider, answers, perfs) ==
    IF ExtractRaises(td) THEN Raised
    ELSE EnrichWith(td, city, provider, EntriesOfSources(WorkSources(td)),
                    answers, perfs)

-----------------------------------------------------------------------------
(* ai_services.py: _fallback_parse and _split_text.                         *)
(*                                                                          *)
(* A text is its non-blank lines in order, then `more` characters of        *)
(* further lines that no pattern of _fallback_parse matches, then `pad`     *)
(* characters of trailing whitespace.  A line is plain, or a row            *)
(* "name volume unit" as the work and goods patterns match it.  The texts   *)
(* of the model have no tax id, object, address or quantity lines and no    *)
(* sentence punctuation.                                                    *)

Plain(s) == [row |-> FALSE, text |-> s, name |-> << >>, volume |-> << >>,
             unit |-> << >>]

Row(name, volume, unit) ==
    [row |-> TRUE, text |-> name \o <<" ">> \o volume \o <<" ">> \o unit,
     name |-> name, volume |-> volume, unit |-> unit]

RECURSIVE LinesLen(_)
\* the characters of the lines, a newline after each
LinesLen(lines) ==
    IF lines = << >> THEN 0
    ELSE Len(Head(lines).text) + 1 + LinesLen(Tail(lines))

\* len(text)
TextLen(txt) == LinesLen(txt.lines) + txt.more + txt.pad

\* len(text.strip())
StrippedLen(txt) == LinesLen(txt.lines) + txt.more

\* the words that mark a title line, transliterated
TitleWords ==
    {<<"p", "o", "s", "t", "a", "v", "k", "a">>,
     <<"o", "k", "a", "z", "a", "n", "i", "e", " ", "u", "s", "l", "u", "g">>,
     <<"o", "k", "a", "z", "a", "n", "i",
       "e", " ", "u", "s", "l", "u", "g", "i">>,
     <<"v", "y", "p", "o", "l", "n", "e", "n",
       "i", "e", " ", "r", "a", "b", "o", "t">>,
     <<"s", "t", "r", "o", "i", "t", "e", "l">>,
     <<"r", "e", "m", "o", "n", "t">>}

\* the words that mark a contacts line, transliterated
ContactWords == {<<"t", "e", "l">>, <<"e", "m", "a", "i", "l">>, <<"p", "o", "c", "h", "t">>}

RECURSIVE RStripDots(_)
\* str.rstrip(" .")
RStripDots(s) ==
    IF s # << >> /\ s[Len(s)] \in {" ", "."}
    THEN RStripDots(SubSeq(s, 1, Len(s) - 1))
    ELSE s

\* the title: the first of the first 20 lines with a title word, else line 1
TitleOf(lines) ==
    LET marked == {i \in 1..Min(20, Len(lines)) :
                      \E w \in TitleWords : Contains(Lower(lines[i].text), w)}
    IN  IF marked # {}
        THEN lines[CHOOSE i \in marked : \A j \in marked : i <= j].text
        ELSE IF lines # << >> THEN lines[1].text
        ELSE << >>

RECURSIVE JoinLines(_)
\* " ".join(lines)
JoinLines(lines) ==
    IF lines = << >> THEN << >>
    ELSE IF Len(lines) = 1 THEN lines[1].text
    ELSE Head(lines).text \o <<" ">> \o JoinLines(Tail(lines))

\* the description: the first 600 characters of the first 50 lines joined;
\* "<more>" stands for what the further lines contribute
DescriptionOf(txt) ==
    Take(JoinLines(SubSeq(txt.lines, 1, Min(50, Len(txt.lines)))), 600)
    \o (IF txt.more > 0 THEN <<"<more>">> ELSE << >>)

\* the contacts: the last line with a contacts word
ContactsOf(lines) ==
    LET marked == {i \in 1..Len(lines) :
                      \E w \in ContactWords : Contains(Lower(lines[i].text), w)}
    IN  IF marked # {}
        THEN lines[CHOOSE i \in marked : \A j \in marked : i >= j].text
        ELSE << >>

\* "zakazchik", the label of the customer line, transliterated
sZakazchik == <<"z", "a", "k", "a", "z", "c", "h", "i", "k">>

\* ln.split(":", 1)[-1].strip()
AfterColon(s) ==
    LET at == {i \in 1..Len(s) : s[i] = ":"}
    IN  IF at = {} THEN Strip(s)
        ELSE Strip(Drop(s, CHOOSE i \in at : \A j \in at : i <= j))

\* the customer name: of the lines that start with the label, the first
\* that leaves a name after the colon
CustomerNameOf(lines) ==
    LET named == {i \in 1..Len(lines) :
                     /\ StartsWith(Lower(lines[i].text), sZakazchik)
                     /\ AfterColon(lines[i].text) # << >>}
    IN  IF named # {}
        THEN AfterColon(lines[CHOOSE i \in named : \A j \in named : i <= j].text)
        ELSE << >>

\* the works the work pattern finds
WorksOf(lines) ==
    LET rows == SelectSeq(lines, LAMBDA l : l.row)
    IN  [i \in 1..Len(rows) |->
            Dict([name |-> Str(Strip(rows[i].name)),
                  volume |-> Str(Strip(rows[i].volume)),
                  unit |-> Str(rows[i].unit),
                  materials |-> EmptyStr, equipment |-> EmptyStr,
                  location |-> EmptyStr, notes |-> EmptyStr])]

\* the goods the goods pattern finds
GoodsOf(lines) ==
    LET rows == SelectSeq(lines, LAMBDA l : l.row)
    IN  [i \in 1..Len(rows) |->
            Dict([name |-> Str(Strip(rows[i].name)),
                  description |-> EmptyStr, brand |-> EmptyStr,
                  model |-> EmptyStr, certificates |-> EmptyStr,
                  quantity |-> Str(Strip(rows[i].volume)),
                  unit |-> Str(rows[i].unit),
                  requirements |-> EmptyStr])]

\* _fallback_parse(text)
_fallback_parse(txt) ==
    LET title == RStripDots(Strip(TitleOf(txt.lines)))
        s == UNIFIED_TENDER_SCHEMA
        customer == Put(Put(s.v["customer"], "contacts",
                            Str(ContactsOf(txt.lines))),
                        "name", Str(CustomerNameOf(txt.lines)))
        object == Put(s.v["object"], "name", Str(title))
        technical == Put(s.v["technical"], "works",
                         One("works_list", List(WorksOf(txt.lines))))
        meta == Put(Put(s.v["analysis_meta"], "fallback_used", Bool(TRUE)),
                    "fallback_reason", Str(<<"base_fallback">>))
    IN  Dict([k \in DOMAIN s.v |->
                CASE k = "title" -> Str(title)
                  [] k = "description" -> Str(DescriptionOf(txt))
                  [] k = "customer" -> customer
                  [] k = "object" -> object
                  [] k = "technical" -> technical
                  [] k = "goods" -> One("items", List(GoodsOf(txt.lines)))
                  [] k = "analysis_meta" -> meta
                  [] OTHER -> s.v[k]])

\* the defaults of _split_text
chunk_size == 20000

overlap == 500

RECURSIVE SplitFrom(_, _, _, _)
\* the while loop of _split_text: the slices [start, end) it appends
SplitFrom(start, n, size, over) ==
    LET end == Min(start + size, n)
    IN  IF start >= n THEN << >>
        ELSE IF end = n THEN <<[start |-> start, end |-> end]>>
        ELSE <<[start |-> start, end |-> end]>>
             \o SplitFrom(end - over, n, size, over)

\* _split_text on a text of n characters after strip(): the chunks as slices
_split_text(n, size, over) ==
    IF n = 0 THEN << >>
    ELSE IF n <= size THEN <<[start |-> 0, end |-> n]>>
    ELSE SplitFrom(0, n, size, over)

-----------------------------------------------------------------------------
(* ai_services.py: analyze_text *)

MAX_LLM_TEXT == 60000

LLM_TEXT_LIMIT == 60000

\* the most characters of further lines a text of the model has
MaxMore == 70000

sSvai == <<"S", "v", "a", "i">>

sK == <<"K">>

sBeton == <<"B", "e", "t", "o", "n">>

\* the lines of the texts
LineLists ==
    {<<Plain(<<"h", "e", "l", "l", "o">>)>>,
     <<Plain(<<"n", "a", " ", "p", "o", "s", "t", "a", "v", "k", "u">>)>>,
     <<Row(sSvai, <<"1", "5", "0">>, sSht)>>,
     <<Plain(<<"R", "e", "m", "o", "n", "t">>), Row(sSvai, <<"2">>, sSht)>>,
     <<Row(sSvai, <<"2">>, sSht), Row(sBeton, <<"3">>, sSht)>>}

Texts ==
    {[lines |-> << >>, more |-> 0, pad |-> n] : n \in {0, 3}}
    \cup {[lines |-> l, more |-> m, pad |-> 0] :
            l \in LineLists, m \in {0, 30000, 45000, MaxMore}}

GoodsA == Dict([name |-> Str(sSvai), quantity |-> Num(2), unit |-> Str(sSht)])

\* the JSON objects recovered from the answers of the LLM
LLMDicts ==
    {Dict(EmptyMap),
     One("title", sT1),
     One("title", Num(7)),
     One("goods", One("items", List(<<GoodsA>>))),
     One("works", List(<<One("name", Num(5))>>)),
     Dict([market_analysis |-> sT1, works |-> List(<<GoodsA>>)])}

\* what a chunk's call gives: provider.generate raises, or its answer, from
\* which parse_json_from_text recovers a JSON object or nothing (None)
ChunkReplies ==
    {[kind |-> "raises", parsed |-> Null], [kind |-> "text", parsed |-> Null]}
    \cup {[kind |-> "text", parsed |-> d] : d \in LLMDicts}

\* _call_llm_chunk: the parsed dict, None on any failure
_call_llm_chunk(reply) ==
    IF reply.kind = "text" /\ IsDict(reply.parsed) THEN reply.parsed ELSE Null

\* the quotes search_prices can give for a work
PriceAnswers ==
    {LookupResult(PriceReplies[i]) : i \in 1..Len(PriceReplies)}
    \cup {PriceInfo(FALSE, "none", <<"<no api key>">>)}

Perf1 ==
    [name |-> <<"O", "O", "O">>, site |-> << >>, phone |-> << >>, email |-> << >>,
     rating |-> Null]

\* what search_performers can give for a work
PerformerLists == {<< >>, <<Perf1>>}

\* tender_data.setdefault("analysis_meta", {}) is no dict
MetaRaises(td) == BadDefaultSection(td, "analysis_meta")

\* tender_data["analysis_meta"]["user_city"] = user_city or ""
SetUserCity(td, city) ==
    Put(td, "analysis_meta",
        Put(SetDefault(td, "analysis_meta"), "user_city", Or(city, EmptyStr)))

\* the works the enrichment of td looks up: none when the extraction raises
EnrichWorks(td) ==
    IF ExtractRaises(td) THEN << >> ELSE EntriesOfSources(WorkSources(td))

\* the cache keys of the works
KeysOf(works, city) == {WorkKey(works[i], city) : i \in 1..Len(works)}

\* the names of the works
NamesOf(works) == {Field(works[i], "name").v : i \in 1..Len(works)}

AnalyzeInit ==
    /\ text \in Texts
    /\ use_llm \in BOOLEAN
    /\ user_city \in {Null, Str(sK)}
    /\ providerOk \in BOOLEAN
    /\ apc = "start"
    /\ fallback_data = Null
    /\ chunks = << >>
    /\ cidx = 0
    /\ partial_results = << >>
    /\ tender_data = Null
    /\ aresult = Null
    /\ quotes = EmptyMap
    /\ called = << >>
    /\ yielded = << >>

\* if not text: return the schema
AnalyzeEmpty ==
    /\ apc = "start"
    /\ TextLen(text) = 0
    /\ aresult' = _deep_copy_schema
    /\ apc' = "returned"
    /\ UNCHANGED <<text, use_llm, user_city, providerOk, fallback_data,
                   chunks, cidx, partial_results, tender_data>>
    /\ UNCHANGED analyzeHist
    /\ UNCHANGED notAnalyze

\* use_llm is off, or the text is longer than MAX_LLM_TEXT
AnalyzeWithoutLLM ==
    /\ apc = "start"
    /\ TextLen(text) > 0
    /\ ~use_llm \/ TextLen(text) > MAX_LLM_TEXT
    /\ fallback_data' = _fallback_parse(text)
    /\ tender_data' = _normalize_to_schema(_fallback_parse(text))
    /\ apc' = "reconcile"
    /\ UNCHANGED <<text, use_llm, user_city, providerOk, chunks, cidx,
                   partial_results, aresult>>
    /\ UNCHANGED analyzeHist
    /\ UNCHANGED notAnalyze

\* get_llm_provider(enable=True) is None
AnalyzeNoProvider ==
    /\ apc = "start"
    /\ TextLen(text) > 0
    /\ use_llm /\ TextLen(text) <= MAX_LLM_TEXT
    /\ ~providerOk
    /\ fallback_data' = _fallback_parse(text)
    /\ tender_data' = _normalize_to_schema(_fallback_parse(text))
    /\ apc' = "reconcile"
    /\ UNCHANGED <<text, use_llm, user_city, providerOk, chunks, cidx,
                   partial_results, aresult>>
    /\ UNCHANGED analyzeHist
    /\ UNCHANGED notAnalyze

\* chunks = _split_text(text[:LLM_TEXT_LIMIT])
AnalyzeSplit ==
    /\ apc = "start"
    /\ TextLen(text) > 0
    /\ use_llm /\ TextLen(text) <= MAX_LLM_TEXT
    /\ providerOk
    /\ fallback_data' = _fallback_parse(text)
    /\ chunks' = _split_text(Min(StrippedLen(text), LLM_TEXT_LIMIT),
                             chunk_size, overlap)
    /\ cidx' = 0
    /\ partial_results' = << >>
    /\ apc' = "chunks"
    /\ UNCHANGED <<text, use_llm, user_city, providerOk, tender_data, aresult>>
    /\ UNCHANGED analyzeHist
    /\ UNCHANGED notAnalyze

\* partial_results.append(dct) without the guard
Appended_unguarded(partials, dct) == Append(partials, dct)

\* if dct: partial_results.append(dct)
Appended(partials, dct) ==
    IF Truthy(dct) THEN Append(partials, dct) ELSE partials

\* the for loop over the chunks retries after a failed call (dct is None)
NextIndex_retry_failed(idx, dct) == IF dct = Null THEN idx ELSE idx + 1

\* for idx, chunk_text in enumerate(chunks, start=1): the chunks handled after
\* the call on chunk idx + 1 gave dct
NextIndex(idx, dct) == idx + 1

\* one turn of the loop over the chunks: if dct: partial_results.append(dct)
CallChunk ==
    \E reply \in ChunkReplies :
        /\ apc = "chunks"
        /\ cidx < Len(chunks)
        /\ cidx' = NextIndex(cidx, _call_llm_chunk(reply))
        /\ partial_results' = Appended(partial_results, _call_llm_chunk(reply))
        /\ called' = Append(called, cidx + 1)
        /\ yielded' = Append(yielded, reply.parsed)
        /\ UNCHANGED <<text, use_llm, user_city, providerOk, apc,
                       fallback_data, chunks, tender_data, aresult, quotes>>
        /\ UNCHANGED notAnalyze

\* after the loop: the aggregate of the partial results, else the fallback
AfterChunks ==
    /\ apc = "chunks"
    /\ cidx = Len(chunks)
    /\ tender_data' =
          IF partial_results # << >>
          THEN _normalize_to_schema(_aggregate_tender_dicts(partial_results))
          ELSE _normalize_to_schema(fallback_data)
    /\ apc' = "reconcile"
    /\ UNCHANGED <<text, use_llm, user_city, providerOk, fallback_data,
                   chunks, cidx, partial_results, aresult>>
    /\ UNCHANGED analyzeHist
    /\ UNCHANGED notAnalyze

\* _postprocess_fields and the user_city assignment
Reconcile ==
    /\ apc = "reconcile"
    /\ _postprocess_fields(tender_data, fallback_data) # Raised
    /\ ~MetaRaises(_postprocess_fields(tender_data, fallback_data))
    /\ tender_data' =
          SetUserCity(_postprocess_fields(tender_data, fallback_data),
                      user_city)
    /\ apc' = "enrich"
    /\ UNCHANGED <<text, use_llm, user_city, providerOk, fallback_data,
                   chunks, cidx, partial_results, aresult>>
    /\ UNCHANGED analyzeHist
    /\ UNCHANGED notAnalyze

\* _postprocess_fields, or the user_city assignment, raises: nothing in
\* analyze_text catches it
ReconcileRaise ==
    /\ apc = "reconcile"
    /\ IF _postprocess_fields(tender_data, fallback_data) = Raised THEN TRUE
       ELSE MetaRaises(_postprocess_fields(tender_data, fallback_data))
    /\ apc' = "raised"
    /\ UNCHANGED <<text, use_llm, user_city, providerOk, fallback_data,
                   chunks, cidx, partial_results, tender_data, aresult>>
    /\ UNCHANGED analyzeHist
    /\ UNCHANGED notAnalyze

\* _apply_market_analysis, then return json.dumps(tender_data)
Enrich ==
    /\ apc = "enrich"
    /\ \E answers \in [KeysOf(EnrichWorks(tender_data), user_city) -> PriceAnswers],
          perfs \in [NamesOf(EnrichWorks(tender_data)) -> PerformerLists] :
        LET out == _apply_market_analysis(tender_data, user_city, providerOk,
                                          answers, perfs)
        IN  /\ out # Raised
            /\ tender_data' = out
            /\ aresult' = out
            /\ quotes' = answers
    /\ apc' = "returned"
    /\ UNCHANGED <<text, use_llm, user_city, providerOk, fallback_data,
                   chunks, cidx, partial_results, called, yielded>>
    /\ UNCHANGED notAnalyze

\* _apply_market_analysis raises: nothing in analyze_text catches it
EnrichRaise ==
    /\ apc = "enrich"
    /\ \E answers \in [KeysOf(EnrichWorks(tender_data), user_city) -> PriceAnswers],
          perfs \in [NamesOf(EnrichWorks(tender_data)) -> PerformerLists] :
        _apply_market_analysis(tender_data, user_city, providerOk,
                               answers, perfs) = Raised
    /\ apc' = "raised"
    /\ UNCHANGED <<text, use_llm, user_city, providerOk, fallback_data,
                   chunks, cidx, partial_results, tender_data, aresult>>
    /\ UNCHANGED analyzeHist
    /\ UNCHANGED notAnalyze

AnalyzeNext ==
    \/ AnalyzeEmpty
    \/ AnalyzeWithoutLLM
    \/ AnalyzeNoProvider
    \/ AnalyzeSplit
    \/ CallChunk
    \/ AfterChunks
    \/ Reconcile
    \/ ReconcileRaise
    \/ Enrich
    \/ EnrichRaise

InitAnalyze ==
    /\ AnalyzeInit /\ MergeIdle /\ ParseIdle /\ PriceIdle /\ ReconcileIdle
    /\ SplitIdle /\ WorksIdle /\ PerformIdle /\ RaceIdle /\ FallbackIdle
    /\ SummaryIdle /\ HeapIdle

SpecAnalyze == InitAnalyze /\ [][AnalyzeNext]_vars

\* C1: for every text, every use_llm and every failure pattern of the LLM
\* provider, the LLM calls and the price and performer lookups, analyze_text
\* returns without raising, and the record it returns has every key of the
\* schema template.
C1_AnalyzeNeverRaises ==
    /\ apc # "raised"
    /\ apc = "returned" =>
          /\ IsDict(aresult)
          /\ DOMAIN UNIFIED_TENDER_SCHEMA.v \subseteq DOMAIN aresult.v

-----------------------------------------------------------------------------
(* The market-analysis section of the returned record *)

\* analyze_text returned a record that _apply_market_analysis enriched
Enriched == apc = "returned" /\ EnrichWorks(aresult) # << >>

\* market_analysis.minimum_sum_calculation of a record
CalcOf(rec) ==
    Field(Field(rec, "market_analysis"), "minimum_sum_calculation")

\* its works_breakdown rows
BreakdownOf(rec) == Field(CalcOf(rec), "works_breakdown").v

IsCalculated(r) == Field(r, "status") = Str(<<"calculated">>)

IsNoData(r) == Field(r, "status") = Str(<<"no_data">>)

RECURSIVE PricedSum(_, _)
\* the sum, over the calculated rows, of the unit price at key pk times volume
PricedSum(rows, pk) ==
    IF rows = << >> THEN 0
    ELSE (IF IsCalculated(Head(rows))
          THEN Field(Head(rows), pk).v * Field(Head(rows), "volume").v
          ELSE 0)
         + PricedSum(Tail(rows), pk)

\* a no_data row carries no price and no subtotal
Unpriced(r) ==
    DOMAIN r.v \cap {"price_min", "price_max", "subtotal_min", "subtotal_max"}
        = {}

\* every row is calculated or no_data, and the rows of the works whose quote
\* is not ok are no_data rows without a price
FailedLookupsUnpriced(rec) ==
    \A i \in 1..Len(BreakdownOf(rec)) :
        LET r == BreakdownOf(rec)[i]
            q == quotes[cache_key(Field(r, "work_name").v, CityArg(user_city))]
        IN  /\ IsCalculated(r) \/ IsNoData(r)
            /\ ~q.ok => IsNoData(r)
            /\ IsNoData(r) => Unpriced(r)

C12_OneRowPerWork ==
    Enriched =>
        \A i, j \in 1..Len(BreakdownOf(aresult)) :
            Field(BreakdownOf(aresult)[i], "work_name")
                = Field(BreakdownOf(aresult)[j], "work_name") => i = j

-----------------------------------------------------------------------------
(* The loop of analyze_text over the chunks *)

\* the loop over the chunks is over
ChunksDone ==
    /\ chunks # << >>
    /\ apc \in {"reconcile", "enrich", "returned", "raised"}

\* C13: for every sequence of chunks and every pattern of per-chunk failures
\* (the call raising, or the answer failing JSON recovery) the LLM is called
\* exactly once for each chunk, in chunk order, with no retry, and a failure
\* on one chunk does not keep the later chunks from being processed.
C13_OneCallPerChunk ==
    /\ called = [i \in 1..cidx |-> i]
    /\ ChunksDone => called = [i \in 1..Len(chunks) |-> i]

\* three chunks were processed, two of the calls failing or giving nothing
C13_Witness ==
    /\ ChunksDone
    /\ Len(chunks) = 3
    /\ called = <<1, 2, 3>>
    /\ Len(partial_results) = 1

C15_FallbackMarked ==
    (apc = "returned" /\ partial_results = << >>) =>
        LET meta == Field(aresult, "analysis_meta")
        IN  /\ Field(meta, "fallback_used") = Bool(TRUE)
            /\ Field(meta, "fallback_reason").t = "str"
            /\ Field(meta, "fallback_reason").v # << >>

-----------------------------------------------------------------------------
(* _postprocess_fields on the records analyze_text hands to it *)

\* the record _postprocess_fields is about to return, or Raised
Reconciled == _postprocess_fields(tender_data, fallback_data)

\* C16: _postprocess_fields never raises and returns a record with every
\* schema key, for every normalized merged record and every fallback record,
\* whatever the text and the types of the values supplied for the title,
\* description, object and customer fields.
C16_ReconcileNeverRaises ==
    apc = "reconcile" =>
        /\ Reconciled # Raised
        /\ DOMAIN UNIFIED_TENDER_SCHEMA.v \subseteq DOMAIN Reconciled.v

-----------------------------------------------------------------------------
(* One call of _postprocess_fields(tender_data, fallback_data), on a         *)
(* normalized record of the LLM or of the fallback parse                     *)

TenDigits == [i \in 1..10 |-> "0"]

\* values of customer.contacts in the record of the LLM
ContactValues ==
    {Absent, EmptyStr, Str(<<" ">>), Num(5),
     Str(<<"p", "r", "o", "z", "a">>),
     Str(<<"s", "t", "e", "l", "l", "a", "z", "h">>),
     Str(<<"t", "e", "l", ".", " ", "5">>),
     Str(<<" ", "a", "@", "b", " ">>),
     Str(<<"+", "7">> \o TenDigits),
     Str(<<"8">> \o TenDigits),
     Str(<<"x", "8">> \o TenDigits)}

\* values of title in the record of the LLM
TitleValues == {Absent, sT1, Str(<<"n", "a", " ", "p", "o", "s", "t", "a", "v", "k", "u">>)}

\* the records of the LLM, normalized
MergedRecords ==
    {_normalize_to_schema(
        Obj([title |-> t,
             customer |-> IF c = Absent THEN Absent ELSE One("contacts", c)])) :
        t \in TitleValues, c \in ContactValues}

\* the texts the fallback records are parsed from
ContactTexts ==
    {[lines |-> l, more |-> 0, pad |-> 0] :
        l \in {<<Plain(<<"h", "e", "l", "l", "o">>)>>,
               <<Plain(<<"h", "e", "l", "l", "o">>), Plain(<<"t", "e", "l", " ", "1", "2", "3">>)>>,
               <<Plain(<<"h", "e", "l", "l", "o">>), Plain(<<"p", "o", "c", "h", "t", "a", " ", "n", "e", "t">>)>>,
               <<Plain(<<"h", "e", "l", "l", "o">>), Plain(<<"e", "m", "a", "i", "l", " ", "a">>), Plain(<<"x">>)>>}}

PostprocessInit ==
    /\ rec_fb \in {_fallback_parse(t) : t \in ContactTexts}
    /\ rec_td \in MergedRecords \cup {_normalize_to_schema(rec_fb)}
    /\ rec_pc = "start"
    /\ rec_out = Null

\* the call returns the record
PostprocessReturns ==
    /\ rec_pc = "start"
    /\ _postprocess_fields(rec_td, rec_fb) # Raised
    /\ rec_out' = _postprocess_fields(rec_td, rec_fb)
    /\ rec_pc' = "returned"
    /\ UNCHANGED <<rec_td, rec_fb>>
    /\ UNCHANGED notReconcile

\* the call raises IndexError or AttributeError
PostprocessFails ==
    /\ rec_pc = "start"
    /\ _postprocess_fields(rec_td, rec_fb) = Raised
    /\ rec_pc' = "raised"
    /\ UNCHANGED <<rec_td, rec_fb, rec_out>>
    /\ UNCHANGED notReconcile

PostprocessNext == PostprocessReturns \/ PostprocessFails

InitReconcile ==
    /\ PostprocessInit /\ MergeIdle /\ ParseIdle /\ PriceIdle /\ AnalyzeIdle
    /\ SplitIdle /\ WorksIdle /\ PerformIdle /\ RaceIdle /\ FallbackIdle
    /\ SummaryIdle /\ HeapIdle

SpecReconcile == InitReconcile /\ [][PostprocessNext]_vars

\* customer.contacts of a record
ContactsIn(rec) == Field(Field(rec, "customer"), "contacts")

\* the value satisfies the looks-like-contacts predicate
Looks(x) == x.t = "str" /\ _looks_like_contacts(x.v)

-----------------------------------------------------------------------------
(* ai_services.py and parser_pipeline.py: _split_text *)

\* the most characters between the padding of a text of the model
MaxSplitLen == 6

\* the most spaces before and after them
MaxPad == 2

\* the largest chunk_size of the model
MaxChunkSize == 4

\* the largest overlap of the model
MaxOverlap == 4

\* the chunks memory holds: more than any call that returns has built
MaxChunks == MaxSplitLen + 1

SplitImpls == {"ai_services", "parser_pipeline"}

SplitChars == <<"1", "2", "3", "4", "5", "6", "7", "8", "9">>

\* k spaces
Pad(k) == [i \in 1..k |-> " "]

\* n characters, no two alike; with inner the second of them is a space
SplitBody(n, inner) ==
    [i \in 1..n |-> IF inner /\ i = 2 /\ n >= 3 THEN " " ELSE SplitChars[i]]

SplitTexts ==
    {Pad(l) \o SplitBody(n, inner) \o Pad(t) :
        l \in 0..MaxPad, n \in 0..MaxSplitLen, t \in 0..MaxPad,
        inner \in BOOLEAN}

\* the position Python's slicing takes for index i in n characters
SliceIndex(i, n) == IF i < 0 THEN Max(i + n, 0) ELSE Min(i, n)

\* s[a:b]
Slice(s, a, b) ==
    SubSeq(s, SliceIndex(a, Len(s)) + 1, SliceIndex(b, Len(s)))

\* the start of the next turn without the overlap
NextStart_no_overlap(impl, end, over) == end

\* the start of the next turn of the while loop
NextStart(impl, end, over) ==
    IF impl = "ai_services" THEN end - over ELSE Max(0, end - over)

\* the test that breaks the while loop
AtEnd(impl, end, n) == IF impl = "ai_services" THEN end = n ELSE end >= n

\* _split_text(text, chunk_size, overlap) is called
SplitInit ==
    /\ sp_impl \in SplitImpls
    /\ sp_in \in SplitTexts
    /\ sp_size \in 1..MaxChunkSize
    /\ sp_over \in 0..MaxOverlap
    /\ sp_text = << >>
    /\ sp_start = 0
    /\ sp_chunks = << >>
    /\ sp_pc = "start"

\* ai_services: if not text: return []
SplitBlank ==
    /\ sp_pc = "start"
    /\ sp_impl = "ai_services"
    /\ Strip(sp_in) = << >>
    /\ sp_text' = Strip(sp_in)
    /\ sp_chunks' = << >>
    /\ sp_pc' = "done"
    /\ UNCHANGED <<sp_impl, sp_in, sp_size, sp_over, sp_start>>
    /\ UNCHANGED notSplit

\* if len(text) <= chunk_size: return [text]
SplitWhole ==
    /\ sp_pc = "start"
    /\ sp_impl = "ai_services" => Strip(sp_in) # << >>
    /\ Len(Strip(sp_in)) <= sp_size
    /\ sp_text' = Strip(sp_in)
    /\ sp_chunks' = <<Strip(sp_in)>>
    /\ sp_pc' = "done"
    /\ UNCHANGED <<sp_impl, sp_in, sp_size, sp_over, sp_start>>
    /\ UNCHANGED notSplit

\* chunks = []; start = 0
SplitBegin ==
    /\ sp_pc = "start"
    /\ Len(Strip(sp_in)) > sp_size
    /\ sp_text' = Strip(sp_in)
    /\ sp_chunks' = << >>
    /\ sp_start' = 0
    /\ sp_pc' = "loop"
    /\ UNCHANGED <<sp_impl, sp_in, sp_size, sp_over>>
    /\ UNCHANGED notSplit

\* one turn of the while loop: its test, the append, the break or the new
\* start
SplitTurn ==
    /\ sp_pc = "loop"
    /\ Len(sp_chunks) < MaxChunks
    /\ LET n == Len(sp_text)
           end == Min(sp_start + sp_size, n)
       IN  IF sp_start >= n
           THEN /\ sp_pc' = "done"
                /\ UNCHANGED <<sp_start, sp_chunks>>
           ELSE /\ sp_chunks' = Append(sp_chunks, Slice(sp_text, sp_start, end))
                /\ IF AtEnd(sp_impl, end, n)
                   THEN sp_pc' = "done" /\ UNCHANGED sp_start
                   ELSE /\ sp_start' = NextStart(sp_impl, end, sp_over)
                        /\ UNCHANGED sp_pc
    /\ UNCHANGED <<sp_impl, sp_in, sp_size, sp_over, sp_text>>
    /\ UNCHANGED notSplit

\* the loop is still running when the list has filled the memory: the append
\* raises MemoryError or the process is killed, and nothing is returned
SplitExhaust ==
    /\ sp_pc = "loop"
    /\ Len(sp_chunks) = MaxChunks
    /\ sp_start < Len(sp_text)
    /\ sp_pc' = "exhausted"
    /\ UNCHANGED <<sp_impl, sp_in, sp_size, sp_over, sp_text, sp_start,
                   sp_chunks>>
    /\ UNCHANGED notSplit

SplitNext ==
    SplitBlank \/ SplitWhole \/ SplitBegin \/ SplitTurn \/ SplitExhaust

InitSplit ==
    /\ SplitInit /\ MergeIdle /\ ParseIdle /\ PriceIdle /\ AnalyzeIdle
    /\ ReconcileIdle /\ WorksIdle /\ PerformIdle /\ RaceIdle
    /\ FallbackIdle /\ SummaryIdle /\ HeapIdle

SpecSplit == InitSplit /\ [][SplitNext]_vars

\* a running call keeps running: the loop takes its next turn
SpecSplitLive == SpecSplit /\ WF_vars(SplitNext)

\* the call has returned its chunks
SplitReturned == sp_pc = "done"

\* the characters of a string
CharsOf(s) == {s[i] : i \in DOMAIN s}

FirstChars(s, k) == SubSeq(s, 1, k)

LastChars(s, k) == SubSeq(s, Len(s) - k + 1, Len(s))

RECURSIVE DropJoin(_, _)
\* every chunk minus its first over characters, concatenated
DropJoin(cs, over) ==
    IF cs = << >> THEN << >>
    ELSE SubSeq(Head(cs), over + 1, Len(Head(cs)))
         \o DropJoin(Tail(cs), over)

\* the first chunk with every later chunk minus its first over characters
Rejoined(cs, over) ==
    IF cs = << >> THEN << >> ELSE Head(cs) \o DropJoin(Tail(cs), over)

\* chunk c ends with the over characters chunk d starts with, and the two
\* have no other character in common (no two characters of a text of the
\* model are alike)
ShareExactly(c, d, over) ==
    /\ Len(c) >= over
    /\ Len(d) >= over
    /\ LastChars(c, over) = FirstChars(d, over)
    /\ Cardinality(CharsOf(c) \cap CharsOf(d)) = over

\* what C18 says of the returned chunks
OverlapAndRejoin ==
    /\ sp_chunks # << >>
    /\ \A i \in 1..(Len(sp_chunks) - 1) :
           ShareExactly(sp_chunks[i], sp_chunks[i + 1], sp_over)
    /\ LET last == sp_chunks[Len(sp_chunks)]
       IN  /\ LastChars(Strip(sp_in), Len(last)) = last
           /\ Len(last) > sp_over
    /\ Rejoined(sp_chunks, sp_over) = Strip(sp_in)

\* C18 as stated: for every text longer than chunk_size and every overlap
\* with 0 <= overlap < chunk_size, consecutive chunks share exactly overlap
\* characters, the final chunk ends at the end of the text and is longer
\* than the overlap, and the first chunk joined with every later chunk
\* minus its first overlap characters is the trimmed text.
C18_OverlapAndRejoin ==
    (SplitReturned /\ Len(sp_in) > sp_size /\ sp_over < sp_size)
        => OverlapAndRejoin

\* C18 amended: the same for every text that is longer than chunk_size
\* after trimming.
C18_OverlapAndRejoinTrimmed ==
    (SplitReturned /\ Len(Strip(sp_in)) > sp_size /\ sp_over < sp_size)
        => OverlapAndRejoin

\* a padded text was split into three or more overlapping chunks, the last
\* one shorter than chunk_size
C18_Witness ==
    /\ SplitReturned
    /\ Len(Strip(sp_in)) > sp_size
    /\ sp_over > 0
    /\ sp_over < sp_size
    /\ sp_in # Strip(sp_in)
    /\ Len(sp_chunks) >= 3
    /\ Len(sp_chunks[Len(sp_chunks)]) < sp_size

\* C19: every chunk returned has at least 1 and at most chunk_size
\* characters; a blank or empty text yields the empty sequence, never a
\* sequence that holds an empty chunk; a text no longer than chunk_size
\* yields exactly one chunk, the trimmed text.
C19_ChunksNonEmptyAndBounded ==
    SplitReturned =>
        /\ \A i \in DOMAIN sp_chunks :
               Len(sp_chunks[i]) >= 1 /\ Len(sp_chunks[i]) <= sp_size
        /\ Strip(sp_in) = << >> => sp_chunks = << >>
        /\ (Strip(sp_in) # << >> /\ Len(sp_in) <= sp_size)
               => sp_chunks = <<Strip(sp_in)>>

\* C20: the call terminates and returns a finite sequence of chunks, for
\* every text, every chunk_size >= 1 and every overlap >= 0.
C20_SplitTerminates == <>SplitReturned

-----------------------------------------------------------------------------
(* search_services.py: the range _parse_llm_price accepts and returns *)

\* the quote before section 2.5: the range accepted from the JSON object or
\* from the numeric-extraction fallback
Accepted(c) == Heuristic(FromJson(c.obj), c)

\* a call returned a quote whose accepted range has price_min > 0
AcceptedPositive ==
    /\ ppc = "returned"
    /\ ~content.blank
    /\ Accepted(content).ok
    /\ Accepted(content).price_min.v > 0

\* the accepted range has price_max / price_min < 1.5
Narrow(q) == 2 * q.price_max.v < 3 * q.price_min.v

\* neither bound of the returned range is the floor 10 or the ceiling
Unclipped(q) ==
    q.price_min.v > Twentieths(10) /\ q.price_max.v < Ceiling

Remaining(c) ==
    {NumsRaw(c)[i] : i \in {j \in DOMAIN NumsRaw(c) : Plausible(NumsRaw(c)[j])}}

\* the smallest element of a non-empty set of numbers
Smallest(S) == CHOOSE x \in S : \A y \in S : x <= y

\* the call took the numeric-extraction fallback and found a range
TookFallback(c) ==
    /\ ~c.blank
    /\ ~FromJson(c.obj).ok
    /\ Remaining(c) # {}

\* C25: on the numeric-extraction fallback the (min, max) pair before
\* widening is the two smallest distinct remaining values; one value serves
\* as both only when a single distinct value remains.
C25_TwoSmallestDistinct ==
    (ppc = "returned" /\ TookFallback(content)) =>
        LET q == Accepted(content)
            lo == Smallest(Remaining(content))
            rest == Remaining(content) \ {lo}
        IN  /\ q.price_min = Num(lo)
            /\ q.price_max = Num(IF rest = {} THEN lo ELSE Smallest(rest))

\* the same for calls whose remaining tokens are all different
C25_DistinctTokens ==
    (/\ ppc = "returned" /\ TookFallback(content)
     /\ Cardinality(Remaining(content))
            = Len(SelectSeq(NumsRaw(content), Plausible))) =>
        LET q == Accepted(content)
            lo == Smallest(Remaining(content))
            rest == Remaining(content) \ {lo}
        IN  /\ q.price_min = Num(lo)
            /\ q.price_max = Num(IF rest = {} THEN lo ELSE Smallest(rest))

-----------------------------------------------------------------------------
(* generate_report.py: extract_works                                        *)
(*                                                                          *)
(* A volume that parses is counted in thousandths.  A number in a record   *)
(* (Num) is a float with a whole value, as the rows of works_breakdown      *)
(* hold.                                                                    *)

\* d.get(k, default)
GetOr(m, k, default) == IF k \in DOMAIN m THEN m[k] ELSE default

RECURSIVE NatStr(_)
\* str(n) of an int n >= 0
NatStr(n) ==
    IF n < 10 THEN <<Digits[n + 1]>>
    ELSE NatStr(n \div 10) \o <<Digits[(n % 10) + 1]>>

sNone == <<"N", "o", "n", "e">>

\* str(x)
PyStr(x) ==
    CASE x.t = "str" -> x.v
      [] x.t = "num" -> NatStr(x.v) \o <<".", "0">>
      [] x.t = "null" -> sNone
      [] OTHER -> <<"?">>

\* s.replace(" ", "").replace(",", ".")
Despaced(s) ==
    [i \in 1..Len(RemoveSpaces(s)) |->
        IF RemoveSpaces(s)[i] = "," THEN "." ELSE RemoveSpaces(s)[i]]

\* the places of "." in s
Dots(s) == {i \in 1..Len(s) : s[i] = "."}

\* digits, "." and up to three more digits, after Despaced: what float()
\* takes of the volumes of the model
IsDecimal(s) ==
    LET d == Despaced(s)
    IN  IF Dots(d) = {} THEN AllDigits(d)
        ELSE /\ Cardinality(Dots(d)) = 1
             /\ LET p == CHOOSE i \in Dots(d) : TRUE
                IN  /\ Len(d) - p <= 3
                    /\ Len(d) > 1
                    /\ \A i \in (1..Len(d)) \ {p} : IsDigit(d[i])

\* ten to the power k
Pow10(k) == IF k = 0 THEN 1 ELSE IF k = 1 THEN 10 ELSE IF k = 2 THEN 100 ELSE 1000

\* float(s.replace(" ", "").replace(",", ".")) in thousandths
DecimalValue(s) ==
    LET d == Despaced(s)
    IN  IF Dots(d) = {} THEN 1000 * DigitsValue(d)
        ELSE LET p == CHOOSE i \in Dots(d) : TRUE
             IN  1000 * DigitsValue(SubSeq(d, 1, p - 1))
                 + DigitsValue(SubSeq(d, p + 1, Len(d)))
                   * Pow10(3 - (Len(d) - p))

\* two decimal digits
TwoDigits(h) == <<Digits[(h \div 10) + 1], Digits[(h % 10) + 1]>>

\* f"{total:.2f}".rstrip("0").rstrip("."), for hundredths h
TrimmedDecimal(h) ==
    CASE h % 100 = 0 -> NatStr(h \div 100)
      [] h % 10 = 0 -> NatStr(h \div 100) \o <<".", Digits[((h % 100) \div 10) + 1]>>
      [] OTHER -> NatStr(h \div 100) \o <<".">> \o TwoDigits(h % 100)

\* the sum as a plain decimal, never rounded
SumStr_exact(total) ==
    IF total % 1000 = 0 THEN NatStr(total \div 1000)
    ELSE NatStr(total \div 1000) \o <<".">>
         \o <<Digits[((total % 1000) \div 100) + 1]>>
         \o TwoDigits(total % 100)

\* the volume written for a sum: str(int(total)) if total is whole, else
\* total with two decimals (rounded), trailing zeros dropped
SumStr(total) ==
    IF total % 1000 = 0 THEN NatStr(total \div 1000)
    ELSE TrimmedDecimal((total + 5) \div 10)

\* one entry of the list works
Work(name, volume, unit) == [name |-> name, volume |-> volume, unit |-> unit]

\* section 1: the goods items with a name and a quantity
GoodsWork(g) ==
    IF ~IsDict(g) THEN << >>
    ELSE IF StrippedOr(Field(g, "name"), << >>) # << >>
            /\ StrippedOr(Field(g, "quantity"), << >>) # << >>
    THEN <<Work(Str(StrippedOr(Field(g, "name"), << >>)),
                Str(StrippedOr(Field(g, "quantity"), << >>)),
                Str(StrippedOr(Field(g, "unit"), sSht)))>>
    ELSE << >>

\* section 2: the rows of works_breakdown with a name
BreakdownWork(r) ==
    IF ~IsDict(r) THEN << >>
    ELSE LET name == Or(Field(r, "work_name"), Or(Field(r, "name"), EmptyStr))
         IN  IF Strip(name.v) = << >> THEN << >>
             ELSE <<Work(Str(Strip(name.v)),
                         Or(GetOr(r.v, "volume", EmptyStr),
                            Or(GetOr(r.v, "qty", EmptyStr),
                               GetOr(r.v, "quantity", EmptyStr))),
                         Or(GetOr(r.v, "unit", EmptyStr),
                            GetOr(r.v, "unit_short", EmptyStr)))>>

\* section 3: the technical.works items with a name
TechnicalWork(w) ==
    IF ~IsDict(w) THEN << >>
    ELSE IF StrippedOr(Field(w, "name"), << >>) = << >> THEN << >>
    ELSE <<Work(Str(StrippedOr(Field(w, "name"), << >>)),
                GetOr(w.v, "volume", EmptyStr),
                GetOr(w.v, "unit", EmptyStr))>>

\* a .strip() of sections 1 to 3 on a truthy value that is no string
GatherRaises(goods, wb, src_list) ==
    \/ \E i \in 1..Len(goods) :
          /\ IsDict(goods[i])
          /\ \E k \in {"name", "quantity", "unit"} :
                StripRaises(Field(goods[i], k))
    \/ \E i \in 1..Len(wb) :
          /\ IsDict(wb[i])
          /\ StripRaises(Or(Field(wb[i], "work_name"),
                            Or(Field(wb[i], "name"), EmptyStr)))
    \/ \E i \in 1..Len(src_list) :
          /\ IsDict(src_list[i])
          /\ StripRaises(Field(src_list[i], "name"))

RECURSIVE Gathered(_, _)
\* the entries one section appends, in order
Gathered(items, kind) ==
    IF items = << >> THEN << >>
    ELSE (CASE kind = "goods" -> GoodsWork(Head(items))
            [] kind = "breakdown" -> BreakdownWork(Head(items))
            [] OTHER -> TechnicalWork(Head(items)))
         \o Gathered(Tail(items), kind)

\* the stripped unit of an entry
UnitKey(w) == StrippedOr(w.unit, << >>)

\* str(w.get("volume", "")).strip()
VolumeRaw(w) == Strip(PyStr(w.volume))

\* the first non-empty volume, never a sum
Collided_keep_first(old_vol, volume_raw) ==
    IF old_vol = << >> THEN volume_raw ELSE old_vol

\* the volume kept when an entry meets an earlier one of its key
Collided(old_vol, volume_raw) ==
    IF volume_raw = << >> THEN old_vol
    ELSE IF IsDecimal(volume_raw) /\ (old_vol = << >> \/ IsDecimal(old_vol))
    THEN SumStr(DecimalValue(volume_raw)
                + (IF old_vol = << >> THEN 0 ELSE DecimalValue(old_vol)))
    ELSE IF old_vol = << >> THEN volume_raw ELSE old_vol

\* the place of the key (name, unit) in aggregated, 0 if it is new
PlaceOf(agg_list, name, unit) ==
    IF \E i \in 1..Len(agg_list) :
          agg_list[i].name = name /\ agg_list[i].unit = unit
    THEN CHOOSE i \in 1..Len(agg_list) :
          agg_list[i].name = name /\ agg_list[i].unit = unit
    ELSE 0

\* one turn of the loop that aggregates by (name, unit)
AggregateOne(agg_list, w) ==
    LET i == PlaceOf(agg_list, w.name.v, UnitKey(w))
    IN  IF i = 0
        THEN Append(agg_list, [name |-> w.name.v, volume |-> VolumeRaw(w),
                               unit |-> UnitKey(w)])
        ELSE [agg_list EXCEPT
                ![i].volume = Collided(agg_list[i].volume, VolumeRaw(w))]

RECURSIVE Aggregated(_, _)
\* aggregated after the entries of works, in the order of first appearance
Aggregated(agg_list, works) ==
    IF works = << >> THEN agg_list
    ELSE Aggregated(AggregateOne(agg_list, Head(works)), Tail(works))

\* the list of a section, [] if it is no list
ListOr(x) == IF IsList(x) THEN x.v ELSE << >>

\* technical.works as a list, or its works_list or items
SrcList(works_raw) ==
    IF IsList(works_raw) THEN works_raw.v
    ELSE IF IsDict(works_raw)
    THEN ListOr(Or(Field(works_raw, "works_list"),
                   Or(Field(works_raw, "items"), List(<< >>))))
    ELSE << >>

\* _ensure_dict(d.get(k, {}))
EnsureDict(d, k) ==
    IF k \in DOMAIN d.v /\ IsDict(d.v[k]) THEN d.v[k] ELSE Dict(EmptyMap)

\* the three lists extract_works reads
WorksGoods(td) == ListOr(GetOr(EnsureDict(td, "goods").v, "items", List(<< >>)))

WorksBreakdown(td) ==
    ListOr(GetOr(EnsureDict(EnsureDict(td, "market_analysis"),
                            "minimum_sum_calculation").v,
                 "works_breakdown", List(<< >>)))

WorksTechnical(td) ==
    SrcList(GetOr(EnsureDict(td, "technical").v, "works", List(<< >>)))

\* the list works before the aggregation
GatheredWorks(td) ==
    Gathered(WorksGoods(td), "goods")
    \o Gathered(WorksBreakdown(td), "breakdown")
    \o Gathered(WorksTechnical(td), "technical")

\* extract_works(tender_data): the aggregated entries, or Raised
extract_works(td) ==
    IF GatherRaises(WorksGoods(td), WorksBreakdown(td), WorksTechnical(td))
    THEN Raised
    ELSE IF \E i \in 1..Len(GatheredWorks(td)) : StripRaises(GatheredWorks(td)[i].unit)
    THEN Raised
    ELSE List(Aggregated(<< >>, GatheredWorks(td)))

-----------------------------------------------------------------------------
(* One call of extract_works on a record whose technical.works holds the   *)
(* work entries *)

\* the most work entries of a record of the model
MaxWorks == 3

sM3 == <<"m", "3">>

WorkVolumes ==
    {Str(<<"1", "0", "0">>), Str(<<"5", "0">>), EmptyStr, Str(<<"a", "b", "c">>),
     Str(<<"0", ".", "0", "0", "1">>), Str(<<"1", ",", "5">>), Num(2)}

\* two spellings of one (name, unit) and another unit of the same name
WorkKeys ==
    {[name |-> sBeton, unit |-> sM3],
     [name |-> <<" ">> \o sBeton, unit |-> sM3 \o <<" ">>],
     [name |-> sBeton, unit |-> sSht]}

\* the entries, and one whose unit is a number
WorkEntries ==
    {Dict([name |-> Str(k.name), volume |-> v, unit |-> Str(k.unit)]) :
        k \in WorkKeys, v \in WorkVolumes}
    \cup {Dict([name |-> Str(sBeton), volume |-> Str(<<"1">>),
                unit |-> Num(5)])}

WorkLists == UNION {[1..n -> WorkEntries] : n \in 0..MaxWorks}

\* the record whose technical.works is the list
WithWorks(ws) == One("technical", One("works", List(ws)))

WorksInit ==
    /\ wk_td \in {WithWorks(ws) : ws \in WorkLists}
    /\ wk_pc = "start"
    /\ wk_out = Null

\* the call returns the aggregated list
WorksReturn ==
    /\ wk_pc = "start"
    /\ extract_works(wk_td) # Raised
    /\ wk_out' = extract_works(wk_td)
    /\ wk_pc' = "returned"
    /\ UNCHANGED wk_td
    /\ UNCHANGED notWorks

\* a .strip() of the call raises AttributeError
WorksRaise ==
    /\ wk_pc = "start"
    /\ extract_works(wk_td) = Raised
    /\ wk_pc' = "raised"
    /\ UNCHANGED <<wk_td, wk_out>>
    /\ UNCHANGED notWorks

WorksNext == WorksReturn \/ WorksRaise

InitWorks ==
    /\ WorksInit /\ MergeIdle /\ ParseIdle /\ PriceIdle /\ AnalyzeIdle
    /\ ReconcileIdle /\ SplitIdle /\ PerformIdle /\ RaceIdle
    /\ FallbackIdle /\ SummaryIdle /\ HeapIdle

SpecWorks == InitWorks /\ [][WorksNext]_vars

\* the entries given to the call
GivenWorks == Field(Field(wk_td, "technical"), "works").v

\* the (name, unit) of a given entry, both trimmed
KeyOf(e) ==
    [name |-> Strip(Field(e, "name").v), unit |-> Strip(Field(e, "unit").v)]

\* the volumes, as trimmed text, of the given entries with the key, in order
VolumesOf(key) ==
    LET same == SelectSeq(GivenWorks, LAMBDA e : KeyOf(e) = key)
    IN  [i \in 1..Len(same) |-> Strip(PyStr(Field(same[i], "volume")))]

RECURSIVE SumParsed(_)
\* the sum, in thousandths, of the volumes that parse as numbers
SumParsed(vols) ==
    IF vols = << >> THEN 0
    ELSE (IF IsDecimal(Head(vols)) THEN DecimalValue(Head(vols)) ELSE 0)
         + SumParsed(Tail(vols))

\* the first volume that is not empty, or the empty string
FirstNonEmpty(vols) ==
    IF \A i \in 1..Len(vols) : vols[i] = << >> THEN << >>
    ELSE vols[CHOOSE i \in 1..Len(vols) :
                 vols[i] # << >> /\ \A j \in 1..(i - 1) : vols[j] = << >>]

\* the result has exactly one entry for each (name, unit) given
OnePerKey ==
    /\ {[name |-> wk_out.v[i].name, unit |-> wk_out.v[i].unit] :
           i \in 1..Len(wk_out.v)}
         = {KeyOf(GivenWorks[i]) : i \in 1..Len(GivenWorks)}
    /\ \A i, j \in 1..Len(wk_out.v) :
           (wk_out.v[i].name = wk_out.v[j].name
            /\ wk_out.v[i].unit = wk_out.v[j].unit) => i = j

\* the volume the result reports for the key
ReportedVolume(key) ==
    (wk_out.v[CHOOSE i \in 1..Len(wk_out.v) :
                 wk_out.v[i].name = key.name
                 /\ wk_out.v[i].unit = key.unit]).volume

Abs(x) == IF x < 0 THEN 0 - x ELSE x

\* the volume out denotes the sum of the volumes of vols that parse: exactly
\* when none of them has more than two decimals, else to the two decimals
\* that each addition is written with
DenotesSum(out, vols) ==
    IF \A n \in 1..Len(vols) : vols[n] = << >> THEN out = << >>
    ELSE /\ IsDecimal(out)
         /\ Abs(DecimalValue(out) - SumParsed(vols)) <= 5 * (Len(vols) - 1)
         /\ (\A n \in 1..Len(vols) :
                IsDecimal(vols[n]) => DecimalValue(vols[n]) % 10 = 0)
              => DecimalValue(out) = SumParsed(vols)

\* the two volumes are the same text, or the same number to two decimals
SameVolume(a, b) ==
    IF a = b THEN TRUE
    ELSE /\ IsDecimal(a) /\ IsDecimal(b)
         /\ Abs(DecimalValue(a) - DecimalValue(b)) <= 5

-----------------------------------------------------------------------------
(* search_services.py: SearchService.search_performers *)

\* the most entries an external answer of the model holds
MaxItems == 3

\* the largest limit of the model
MaxLimit == 2

\* the limit _search_avito_performers takes when it is given 0
AvitoDefaultLimit == 5

PerformTasks == {Null, Str(<<" ">>), Str(sSvai)}

Limits == 0..MaxLimit

\* one feature of an answer: a company with a name, one without, or one
\* whose fields make the parsing raise
FeatureKinds == {"company", "unnamed", "broken"}

\* what the organisations search does: the request fails, answers 403,
\* another error status, something that is no JSON, JSON without a list of
\* features, or features, as many as it likes
PlacesAnswers ==
    {[kind |-> k, items |-> << >>] :
        k \in {"network_error", "forbidden", "not_ok", "bad_json", "no_list"}}
    \cup {[kind |-> "features", items |-> its] :
            its \in UNION {[1..n -> FeatureKinds] : n \in 0..MaxItems}}

\* what the classifieds search does: the request fails, answers 429,
\* another error status, or a page with links, some without href
AvitoAnswers ==
    {[kind |-> k, links |-> << >>] :
        k \in {"network_error", "too_many", "http_error"}}
    \cup {[kind |-> "page", links |-> ls] :
            ls \in UNION {[1..n -> {"link", "no_href"}] : n \in 0..MaxItems}}

\* _call_places_api: the features of the answer, [] on every failure
_call_places_api(answer) ==
    IF answer.kind = "features" THEN answer.items ELSE << >>

\* the PerformerInfo made from entry i of the answer of a path
Performer(src, i) == [src |-> src, at |-> i]

\* _parse_places_items: one PerformerInfo per feature with a name
_parse_places_items(items) ==
    SelectSeq([i \in 1..Len(items) |->
                  IF items[i] = "company" THEN Performer("places", i)
                  ELSE Performer("skipped", i)],
              LAMBDA pf : pf.src = "places")

\* _search_avito_performers: the links with href among links[:(limit or 5)]
_search_avito_performers(answer, limit) ==
    IF answer.kind # "page" THEN << >>
    ELSE SelectSeq([i \in 1..Len(Slice(answer.links, 0,
                                       IF limit = 0 THEN AvitoDefaultLimit
                                       ELSE limit)) |->
                       IF answer.links[i] = "link" THEN Performer("avito", i)
                       ELSE Performer("skipped", i)],
                   LAMBDA pf : pf.src = "avito")

\* the fallback is taken whatever step 1 found
NeedsFallback_always(performers) == TRUE

\* if not performers
NeedsFallback(performers) == performers = << >>

\* (task or "").strip() is empty
BlankTask(task) == StrippedOr(task, << >>) = << >>

PerformInit ==
    /\ pf_key \in BOOLEAN
    /\ pf_task \in PerformTasks
    /\ pf_limit \in Limits
    /\ pf_places \in PlacesAnswers
    /\ pf_avito \in AvitoAnswers
    /\ pf_requests = << >>
    /\ pf_first = << >>
    /\ pf_performers = << >>
    /\ pf_pc = "start"

\* if not task: return []
PerformEmptyTask ==
    /\ pf_pc = "start"
    /\ BlankTask(pf_task)
    /\ pf_pc' = "done"
    /\ UNCHANGED <<pf_key, pf_task, pf_limit, pf_places, pf_avito,
                   pf_requests, pf_first, pf_performers>>
    /\ UNCHANGED notPerform

\* step 1 with a key: one request to the organisations search
PerformPrimary ==
    /\ pf_pc = "start"
    /\ ~BlankTask(pf_task)
    /\ pf_key
    /\ pf_requests' = Append(pf_requests, "places")
    /\ pf_performers' = _parse_places_items(_call_places_api(pf_places))
    /\ pf_first' = _parse_places_items(_call_places_api(pf_places))
    /\ pf_pc' = "primary"
    /\ UNCHANGED <<pf_key, pf_task, pf_limit, pf_places, pf_avito>>
    /\ UNCHANGED notPerform

\* step 1 without a key: nothing is asked
PerformNoKey ==
    /\ pf_pc = "start"
    /\ ~BlankTask(pf_task)
    /\ ~pf_key
    /\ pf_pc' = "primary"
    /\ UNCHANGED <<pf_key, pf_task, pf_limit, pf_places, pf_avito,
                   pf_requests, pf_first, pf_performers>>
    /\ UNCHANGED notPerform

\* step 2: one request to the classifieds search
PerformFallback ==
    /\ pf_pc = "primary"
    /\ NeedsFallback(pf_performers)
    /\ pf_requests' = Append(pf_requests, "avito")
    /\ pf_performers' = _search_avito_performers(pf_avito, pf_limit)
    /\ pf_pc' = "done"
    /\ UNCHANGED <<pf_key, pf_task, pf_limit, pf_places, pf_avito, pf_first>>
    /\ UNCHANGED notPerform

\* return performers of step 1
PerformReturn ==
    /\ pf_pc = "primary"
    /\ ~NeedsFallback(pf_performers)
    /\ pf_pc' = "done"
    /\ UNCHANGED <<pf_key, pf_task, pf_limit, pf_places, pf_avito,
                   pf_requests, pf_first, pf_performers>>
    /\ UNCHANGED notPerform

PerformNext ==
    \/ PerformEmptyTask
    \/ PerformPrimary
    \/ PerformNoKey
    \/ PerformFallback
    \/ PerformReturn

InitPerform ==
    /\ PerformInit /\ MergeIdle /\ ParseIdle /\ PriceIdle /\ AnalyzeIdle
    /\ ReconcileIdle /\ SplitIdle /\ WorksIdle /\ RaceIdle /\ FallbackIdle
    /\ SummaryIdle /\ HeapIdle

SpecPerform == InitPerform /\ [][PerformNext]_vars

\* C23: search_performers(task, city, limit) returns at most limit
\* performer records, whichever path produced them and however many
\* entries the external service returned.
C23_AtMostLimit == pf_pc = "done" => Len(pf_performers) <= pf_limit

-----------------------------------------------------------------------------
(* search_services.py: concurrent calls of search_prices on one instance *)

MaxConcurrent == 2

\* the lookups running at the same time
Lookups == 1..MaxConcurrent

\* spellings of one task: every one gives the same cache key
RaceTasks == {<<"A">>, <<" ", "a">>}

\* the city argument of every concurrent lookup
RaceCity == <<"K">>

\* cache_key of lookup t
RaceKey(t) == cache_key(rc_task[t], RaceCity)

\* the fields of a PriceInfo
QuoteFields ==
    {"ok", "source", "price_min", "price_max", "unit", "currency",
     "confidence", "comment"}

\* PriceInfo(ok=cached.ok, source="cache", ...)
CachedCopy(cached) == [cached EXCEPT !.source = "cache"]

RaceInit ==
    /\ rc_apiKey \in BOOLEAN
    /\ rc_task \in [Lookups -> RaceTasks]
    /\ rc_cache = EmptyMap
    /\ rc_pc = [t \in Lookups |-> "start"]
    /\ rc_info = [t \in Lookups |-> Null]
    /\ rc_ret = [t \in Lookups |-> Null]
    /\ rc_made = {}
    /\ rc_writes = << >>

\* if cache_key in self._cache:
RaceTest(t) ==
    /\ rc_pc[t] = "start"
    /\ CleanTask(rc_task[t]) # << >>
    /\ rc_pc' = [rc_pc EXCEPT
                    ![t] = IF RaceKey(t) \in DOMAIN rc_cache
                           THEN "hit" ELSE "miss"]
    /\ UNCHANGED <<rc_apiKey, rc_task, rc_cache, rc_info, rc_ret, rc_made,
                   rc_writes>>
    /\ UNCHANGED notRace

\* cached = self._cache[cache_key]; return PriceInfo(..., source="cache"):
\* the subscript raises KeyError when the entry is gone
RaceHit(t) ==
    /\ rc_pc[t] = "hit"
    /\ IF RaceKey(t) \in DOMAIN rc_cache
       THEN /\ rc_ret' = [rc_ret EXCEPT
                             ![t] = CachedCopy(rc_cache[RaceKey(t)])]
            /\ rc_pc' = [rc_pc EXCEPT ![t] = "done"]
       ELSE /\ rc_ret' = [rc_ret EXCEPT ![t] = Raised]
            /\ rc_pc' = [rc_pc EXCEPT ![t] = "raised"]
    /\ UNCHANGED <<rc_apiKey, rc_task, rc_cache, rc_info, rc_made,
                   rc_writes>>
    /\ UNCHANGED notRace

\* if not self._openrouter_api_key: info = PriceInfo(ok=False, source="none")
RaceNoApiKey(t) ==
    /\ rc_pc[t] = "miss"
    /\ ~rc_apiKey
    /\ LET info == PriceInfo(FALSE, "none", <<"<no api key>">>)
       IN  /\ rc_info' = [rc_info EXCEPT ![t] = info]
           /\ rc_made' = rc_made \cup {info}
    /\ rc_pc' = [rc_pc EXCEPT ![t] = "store"]
    /\ UNCHANGED <<rc_apiKey, rc_task, rc_cache, rc_ret, rc_writes>>
    /\ UNCHANGED notRace

\* try: raw_content = self._ask_llm_price(...); info = self._parse_llm_price(
\* raw_content) except Exception: info = PriceInfo(source="llm_error")
RaceAsk(t) ==
    \E reply \in LLMReplies :
        /\ rc_pc[t] = "miss"
        /\ rc_apiKey
        /\ LET info == LookupResult(reply)
           IN  /\ rc_info' = [rc_info EXCEPT ![t] = info]
               /\ rc_made' = rc_made \cup {info}
        /\ rc_pc' = [rc_pc EXCEPT ![t] = "store"]
        /\ UNCHANGED <<rc_apiKey, rc_task, rc_cache, rc_ret, rc_writes>>
        /\ UNCHANGED notRace

\* self._cache[cache_key] = info; return info
RaceStore(t) ==
    /\ rc_pc[t] = "store"
    /\ rc_cache' = Store(rc_cache, RaceKey(t), rc_info[t])
    /\ rc_writes' = Append(rc_writes, rc_info[t])
    /\ rc_ret' = [rc_ret EXCEPT ![t] = rc_info[t]]
    /\ rc_pc' = [rc_pc EXCEPT ![t] = "done"]
    /\ UNCHANGED <<rc_apiKey, rc_task, rc_info, rc_made>>
    /\ UNCHANGED notRace

RaceNext ==
    \E t \in Lookups :
        \/ RaceTest(t)
        \/ RaceHit(t)
        \/ RaceNoApiKey(t)
        \/ RaceAsk(t)
        \/ RaceStore(t)

InitRace ==
    /\ RaceInit /\ MergeIdle /\ ParseIdle /\ PriceIdle /\ AnalyzeIdle
    /\ ReconcileIdle /\ SplitIdle /\ WorksIdle /\ PerformIdle
    /\ FallbackIdle /\ SummaryIdle /\ HeapIdle

SpecRace == InitRace /\ [][RaceNext]_vars

\* the key every concurrent lookup uses
TheKey == <<<<"a">>, <<"k">>>>

\* q is a whole quote some lookup built, or the tagged copy of one
WholeQuote(q) ==
    /\ DOMAIN q = QuoteFields
    /\ \/ q \in rc_made
       \/ \E m \in rc_made : CachedCopyOf(q, m)

\* C24: two concurrent lookups of the same key on one instance: neither
\* raises, each returns a whole quote that some lookup built (or its copy
\* tagged "cache"), the cache entry is always the quote of the latest write
\* (last writer wins), and the cache holds nothing no lookup produced.
C24_LastWriterWins ==
    /\ \A t \in Lookups : RaceKey(t) = TheKey /\ rc_pc[t] # "raised"
    /\ \A t \in Lookups : rc_pc[t] = "done" => WholeQuote(rc_ret[t])
    /\ DOMAIN rc_cache \subseteq {TheKey}
    /\ (rc_writes = << >>) <=> (rc_cache = EmptyMap)
    /\ rc_writes # << >> =>
        /\ rc_cache[TheKey] = rc_writes[Len(rc_writes)]
        /\ rc_cache[TheKey] \in rc_made

\* both lookups missed, built different quotes and wrote them; both are
\* done and the entry is the second write
C24_Witness ==
    /\ \A t \in Lookups : rc_pc[t] = "done"
    /\ Len(rc_writes) = 2
    /\ rc_writes[1] # rc_writes[2]
    /\ rc_writes[1].ok /\ rc_writes[2].ok
    /\ rc_cache[TheKey] = rc_writes[2]
    /\ \E t \in Lookups : rc_ret[t] # rc_cache[TheKey]


\* the external requests a call may make, in order
RequestOrders == {<< >>, <<"places">>, <<"avito">>, <<"places", "avito">>}

\* every record of the list was made from the answer of the service src
AllFrom(performers, src) ==
    \A i \in DOMAIN performers : performers[i].src = src

\* C26: within one search_performers call the classifieds lookup is
\* attempted if and only if the primary lookup produced zero performers; the
\* call makes at most two external requests, each service asked at most
\* once and the primary first; the returned list comes from one path; a
\* call with an empty task makes no request.
C26_FallbackIffNoPrimary ==
    /\ pf_requests \in RequestOrders
    /\ pf_pc = "done" =>
        /\ BlankTask(pf_task) => pf_requests = << >> /\ pf_performers = << >>
        /\ ~BlankTask(pf_task) =>
            /\ (pf_requests # << >>
                /\ pf_requests[Len(pf_requests)] = "avito")
                    <=> (pf_first = << >>)
            /\ pf_first # << >> =>
                /\ pf_performers = pf_first
                /\ AllFrom(pf_performers, "places")
            /\ pf_first = << >> => AllFrom(pf_performers, "avito")

\* the primary lookup was asked and found nothing; the classifieds lookup
\* was asked after it and its records are returned
C26_Witness ==
    /\ pf_pc = "done"
    /\ pf_requests = <<"places", "avito">>
    /\ pf_first = << >>
    /\ pf_performers # << >>
    /\ AllFrom(pf_performers, "avito")

-----------------------------------------------------------------------------
(* ai_services.py: _fallback_parse on texts with customer and contacts lines *)

MaxLines == 3

\* the lines of the texts: two with a contacts word, three with the
\* customer label (one without a name), one with neither
HeaderLines ==
    {<<"t", "e", "l", " ", "1">>,
     <<"E", "m", "a", "i", "l", " ", "b">>,
     <<"h", "e", "l", "l", "o">>,
     <<"Z", "a", "k", "a", "z", "c", "h", "i", "k", ":", " ", "A">>,
     <<"z", "a", "k", "a", "z", "c", "h", "i", "k", ":", "B", " ">>,
     <<"Z", "a", "k", "a", "z", "c", "h", "i", "k", ":">>}

HeaderTexts == UNION {[1..n -> HeaderLines] : n \in 0..MaxLines}

FallbackInit ==
    /\ fb_lines \in HeaderTexts
    /\ fb_pc = "start"
    /\ fb_record = Null

\* one call of _fallback_parse(text)
FallbackParse ==
    /\ fb_pc = "start"
    /\ fb_record' = _fallback_parse(
                        [lines |-> [i \in 1..Len(fb_lines) |->
                                        Plain(fb_lines[i])],
                         more |-> 0, pad |-> 0])
    /\ fb_pc' = "done"
    /\ UNCHANGED fb_lines
    /\ UNCHANGED notFallback

FallbackNext == FallbackParse

InitFallback ==
    /\ FallbackInit /\ MergeIdle /\ ParseIdle /\ PriceIdle /\ AnalyzeIdle
    /\ ReconcileIdle /\ SplitIdle /\ WorksIdle /\ PerformIdle /\ RaceIdle
    /\ SummaryIdle /\ HeapIdle

SpecFallback == InitFallback /\ [][FallbackNext]_vars

\* the line has a phone or e-mail keyword
HasContactWord(s) == \E w \in ContactWords : Contains(Lower(s), w)

\* the positions of the lines of the text that have a contacts keyword
ContactLines == {i \in 1..Len(fb_lines) : HasContactWord(fb_lines[i])}

\* the positions of the lines that start with the customer label and name
\* a customer
CustomerLines ==
    {i \in 1..Len(fb_lines) :
        /\ StartsWith(Lower(fb_lines[i]), sZakazchik)
        /\ AfterColon(fb_lines[i]) # << >>}

\* C27: the heuristic extractor sets customer.contacts to the first line,
\* in document order, that contains a phone/e-mail keyword; a later matching
\* line never replaces it.
C27_FirstContactsLineKept ==
    (fb_pc = "done" /\ ContactLines # {}) =>
        Field(Field(fb_record, "customer"), "contacts")
            = Str(fb_lines[CHOOSE i \in ContactLines :
                              \A j \in ContactLines : i <= j])

\* what the code does: the last line with a contacts keyword is kept
C27_LastContactsLineKept ==
    fb_pc = "done" =>
        Field(Field(fb_record, "customer"), "contacts")
            = IF ContactLines = {} THEN EmptyStr
              ELSE Str(fb_lines[CHOOSE i \in ContactLines :
                                   \A j \in ContactLines : i >= j])

\* the customer name is the one of the first line that names a customer
C27_FirstCustomerNameKept ==
    fb_pc = "done" =>
        Field(Field(fb_record, "customer"), "name")
            = IF CustomerLines = {} THEN EmptyStr
              ELSE Str(AfterColon(fb_lines[CHOOSE i \in CustomerLines :
                                              \A j \in CustomerLines : i <= j]))

-----------------------------------------------------------------------------
(* ai_services.py: summarize_jsons over the records of analyze_text *)

MaxFiles == 2

\* the lines of the files: one or two rows the work and goods patterns match
FileLines ==
    {<<Row(sSvai, <<"1", "5", "0">>, sSht)>>,
     <<Row(sBeton, <<"3">>, sSht)>>,
     <<Row(sSvai, <<"2">>, sSht), Row(sBeton, <<"3">>, sSht)>>}

\* analyze_text(text, use_llm=False) of a file with these lines, when
\* search_prices answers q for every work and no performer is found
AnalyzedRecord(lines, q) ==
    LET txt == [lines |-> lines, more |-> 0, pad |-> 0]
        fb == _fallback_parse(txt)
        td == SetUserCity(_postprocess_fields(_normalize_to_schema(fb), fb),
                          Null)
        works == EnrichWorks(td)
    IN  _apply_market_analysis(td, Null, TRUE,
                               [k \in KeysOf(works, Null) |-> q],
                               [n \in NamesOf(works) |-> << >>])

\* the per-file records app.py hands to summarize_jsons
FileRecords == {AnalyzedRecord(l, q) : l \in FileLines, q \in PriceAnswers}

\* summarize_jsons(jsons): every string is the json.dumps of a record, which
\* json.loads gives back key for key; the dicts are then aggregated
summarize_jsons(records) == _aggregate_tender_dicts(records)

SummaryInit ==
    /\ sj_records \in UNION {[1..n -> FileRecords] : n \in 0..MaxFiles}
    /\ sj_pc = "start"
    /\ sj_out = Null

\* one call of summarize_jsons
Summarize ==
    /\ sj_pc = "start"
    /\ sj_out' = summarize_jsons(sj_records)
    /\ sj_pc' = "done"
    /\ UNCHANGED sj_records
    /\ UNCHANGED notSummary

SummaryNext == Summarize

InitSummary ==
    /\ SummaryInit /\ MergeIdle /\ ParseIdle /\ PriceIdle /\ AnalyzeIdle
    /\ ReconcileIdle /\ SplitIdle /\ WorksIdle /\ PerformIdle /\ RaceIdle
    /\ FallbackIdle /\ HeapIdle

SpecSummary == InitSummary /\ [][SummaryNext]_vars

\* the total at k is the sum: nothing priced reads "" or leaves the key out
TotalIs(calc, k, sum) ==
    IF sum = 0 THEN Field(calc, k) \in {EmptyStr, Null}
    ELSE Field(calc, k) = Num(sum)

\* the totals of the record are the sums over its works_breakdown rows
TotalsMatchRows(rec) ==
    LET calc == CalcOf(rec)
        rows == Field(calc, "works_breakdown").v
    IN  /\ TotalIs(calc, "total_min", SumOf(rows, "subtotal_min"))
        /\ TotalIs(calc, "total_max", SumOf(rows, "subtotal_max"))

\* C28: in the record summarize_jsons produces from two or more per-file
\* records, each with a market_analysis section, total_min and total_max
\* equal the sums of subtotal_min and subtotal_max over the rows of the
\* aggregated works_breakdown.
C28_SummaryTotalsMatchRows ==
    (sj_pc = "done" /\ Len(sj_records) >= 2) => TotalsMatchRows(sj_out)

\* every single per-file record has totals that match its rows
C28_PerFileTotalsMatchRows ==
    \A i \in DOMAIN sj_records : TotalsMatchRows(sj_records[i])

\* the rows of the summary are the rows of the files one after another, and
\* its totals are those of the last file that has any
C28_RowsConcatenatedTotalsOfLast ==
    (sj_pc = "done" /\ Len(sj_records) = 2) =>
        LET c1 == CalcOf(sj_records[1])
            c2 == CalcOf(sj_records[2])
            out == CalcOf(sj_out)
        IN  /\ Field(out, "works_breakdown").v
                  = Field(c1, "works_breakdown").v
                        \o Field(c2, "works_breakdown").v
            /\ \A k \in {"total_min", "total_max"} :
                  Field(out, k)
                      = IF Field(c2, k) # EmptyStr THEN Field(c2, k)
                        ELSE IF Field(c1, k) # EmptyStr THEN Field(c1, k)
                        ELSE Null

-----------------------------------------------------------------------------
(* generate_report.py: extract_works on the record analyze_text returns *)

\* the works the report lists for the returned record
ReportedWorks == extract_works(aresult)

\* the goods items of the returned record that extract_works reads
StatedItems ==
    LET items == WorksGoods(aresult)
    IN  [i \in 1..Len(items) |-> GoodsWork(items[i])]

\* the item at i is the only goods item of its name and unit
ListedOnce(i) ==
    /\ StatedItems[i] # << >>
    /\ \A j \in (1..Len(StatedItems)) \ {i} :
           StatedItems[j] # << >> =>
               \/ StatedItems[j][1].name # StatedItems[i][1].name
               \/ UnitKey(StatedItems[j][1]) # UnitKey(StatedItems[i][1])

\* market enrichment derived a works_breakdown row of the name and unit of w
HasRow(w) ==
    \E r \in {WorksBreakdown(aresult)[k] :
                 k \in 1..Len(WorksBreakdown(aresult))} :
        /\ BreakdownWork(r) # << >>
        /\ BreakdownWork(r)[1].name = w.name
        /\ UnitKey(BreakdownWork(r)[1]) = UnitKey(w)

\* the entries the report lists for the name and unit of w
ReportedFor(w) ==
    SelectSeq(ReportedWorks.v,
              LAMBDA e : e.name = w.name.v /\ e.unit = UnitKey(w))

\* C29: for a record produced by analyze_text, an item listed once in
\* goods.items with quantity q, for which market enrichment derived a
\* works_breakdown row of the same name and unit, is reported by
\* extract_works once, with volume q.
C29_ItemVolumeAsStated ==
    (apc = "returned" /\ ReportedWorks # Raised) =>
        \A i \in 1..Len(StatedItems) :
            (ListedOnce(i) /\ HasRow(StatedItems[i][1])) =>
                /\ Len(ReportedFor(StatedItems[i][1])) = 1
                /\ SameVolume(ReportedFor(StatedItems[i][1])[1].volume,
                              VolumeRaw(StatedItems[i][1]))

\* such an item is reported once
C29_ItemReportedOnce ==
    (apc = "returned" /\ ReportedWorks # Raised) =>
        \A i \in 1..Len(StatedItems) :
            (ListedOnce(i) /\ HasRow(StatedItems[i][1])) =>
                Len(ReportedFor(StatedItems[i][1])) = 1

-----------------------------------------------------------------------------
(* ai_services.py on the heap: dicts and lists are objects with an address, *)
(* a dict or list slot holds a scalar or a reference, and an assignment     *)
(* stores the reference it is given.  The operators below are the functions *)
(* of the pipeline with their copies, their aliases and their in-place      *)
(* writes; each returns the heap it leaves and the cell it returns.         *)

Ref(a) == [t |-> "ref", v |-> a]

IsRef(c) == c.t = "ref"

\* the cell refers to a dict (a list) of the heap
IsDictAt(h, c) == IsRef(c) /\ h[c.v].t = "dict"

IsListAt(h, c) == IsRef(c) /\ h[c.v].t = "list"

\* a new object: its reference is the next address
Alloc(h, obj) == [h |-> Append(h, obj), c |-> Ref(Len(h) + 1)]

\* d[k] = c on the dict at address a
SetAt(h, a, k, c) == [h EXCEPT ![a].v = Store(h[a].v, k, c)]

\* the step r has left its heap: TLC evaluates the arguments of an operator
\* when they are first used, and a step is finished before the next starts
Done(r) == Len(r.h) >= 0

RECURSIVE Load(_, _), LoadDict(_, _, _, _), LoadList(_, _, _, _)
\* the value x built as new objects (a literal, json.loads, a fresh record)
Load(h, x) ==
    IF x.t = "dict" THEN LoadDict(h, x.v, DOMAIN x.v, EmptyMap)
    ELSE IF x.t = "list" THEN LoadList(h, x.v, 1, << >>)
    ELSE [h |-> h, c |-> x]

LoadDict(h, d, keys, acc) ==
    IF keys = {} THEN Alloc(h, [t |-> "dict", v |-> acc])
    ELSE LET k == CHOOSE kk \in keys : TRUE
             r == Load(h, d[k])
         IN  IF Done(r) THEN LoadDict(r.h, d, keys \ {k}, Store(acc, k, r.c))
             ELSE r

LoadList(h, l, i, acc) ==
    IF i > Len(l) THEN Alloc(h, [t |-> "list", v |-> acc])
    ELSE LET r == Load(h, l[i])
         IN  IF Done(r) THEN LoadList(r.h, l, i + 1, Append(acc, r.c))
             ELSE r

RECURSIVE Read(_, _)
\* the value the cell holds, objects followed
Read(h, c) ==
    IF ~IsRef(c) THEN c
    ELSE IF h[c.v].t = "dict"
    THEN Dict([k \in DOMAIN h[c.v].v |-> Read(h, h[c.v].v[k])])
    ELSE List([i \in 1..Len(h[c.v].v) |-> Read(h, h[c.v].v[i])])

RECURSIVE Reach(_, _)
\* the addresses of the objects the cell leads to
Reach(h, c) ==
    IF ~IsRef(c) THEN {}
    ELSE {c.v} \cup UNION {Reach(h, h[c.v].v[k]) : k \in DOMAIN h[c.v].v}

\* copy.deepcopy(x)
DeepCopy(h, c) == Load(h, Read(h, c))

\* Python truthiness of a cell
TruthyAt(h, c) == IF IsRef(c) THEN DOMAIN h[c.v].v # {} ELSE Truthy(c)

\* the module-level UNIFIED_TENDER_SCHEMA is the first object built
SchemaHeap == Load(<< >>, UNIFIED_TENDER_SCHEMA)

SchemaRef == SchemaHeap.c

\* the schema handed out itself, not a copy of it
_deep_copy_schema_shared(h) == [h |-> h, c |-> SchemaRef]

\* _deep_copy_schema()
_deep_copy_schema_at(h) == DeepCopy(h, SchemaRef)

RECURSIVE _merge_dicts_at(_, _, _), MergeKeys(_, _, _, _)
\* _merge_dicts(base, extra) for the dict at address base: base is changed
\* in place and returned
_merge_dicts_at(h, base, extra) ==
    IF ~IsDictAt(h, extra) THEN [h |-> h, c |-> Ref(base)]
    ELSE MergeKeys(h, base, extra, DOMAIN h[extra.v].v)

\* for k, v in extra.items()
MergeKeys(h, base, extra, keys) ==
    IF keys = {} THEN [h |-> h, c |-> Ref(base)]
    ELSE LET k == CHOOSE kk \in keys : TRUE
             v == h[extra.v].v[k]
             b == Get(h[base].v, k)
             h1 == IF IsDictAt(h, v) THEN
                       LET node == IF TruthyAt(h, b) /\ IsDictAt(h, b)
                                   THEN [h |-> h, c |-> b]
                                   ELSE Alloc(h, [t |-> "dict", v |-> EmptyMap])
                           r == _merge_dicts_at(node.h, node.c.v, v)
                       IN  SetAt(r.h, base, k, r.c)
                   ELSE IF IsListAt(h, v) THEN
                       IF IsListAt(h, b)
                       THEN LET r == Alloc(h, [t |-> "list",
                                               v |-> h[b.v].v \o h[v.v].v])
                            IN  SetAt(r.h, base, k, r.c)
                       ELSE SetAt(h, base, k, v)
                   ELSE IF ScalarOverrides(v) THEN SetAt(h, base, k, v)
                   ELSE h
         IN  IF Len(h1) >= 0 THEN MergeKeys(h1, base, extra, keys \ {k})
             ELSE [h |-> h1, c |-> Ref(base)]

RECURSIVE _fill_at(_, _, _), FillKeys(_, _, _, _, _)
\* _fill(template, d) of _normalize_to_schema
_fill_at(h, template, d) ==
    IF IsDictAt(h, template) THEN
        LET dd == IF IsDictAt(h, d) THEN h[d.v].v ELSE EmptyMap
            extras == [k \in (DOMAIN dd) \ (DOMAIN h[template.v].v) |-> dd[k]]
        IN  FillKeys(h, template, dd, DOMAIN h[template.v].v, extras)
    ELSE IF IsListAt(h, template) THEN
        IF IsListAt(h, d) THEN [h |-> h, c |-> d] ELSE DeepCopy(h, template)
    ELSE
        IF d \in {Null, EmptyStr} THEN [h |-> h, c |-> template]
        ELSE [h |-> h, c |-> d]

\* out[k] = _fill(v, d.get(k)) for the keys of the template; out starts with
\* the further keys of d, which are stored as they are
FillKeys(h, template, dd, keys, out) ==
    IF keys = {} THEN Alloc(h, [t |-> "dict", v |-> out])
    ELSE LET k == CHOOSE kk \in keys : TRUE
             r == _fill_at(h, h[template.v].v[k], Get(dd, k))
         IN  IF Done(r)
             THEN FillKeys(r.h, template, dd, keys \ {k}, Store(out, k, r.c))
             ELSE r

\* _normalize_to_schema(data)
_normalize_to_schema_at(h, data) == _fill_at(h, SchemaRef, data)

RECURSIVE MergeAllAt(_, _, _)
\* for d in dicts: agg = _merge_dicts(agg, d)
MergeAllAt(h, base, ds) ==
    IF ds = << >> THEN [h |-> h, c |-> Ref(base)]
    ELSE LET r == _merge_dicts_at(h, base, Head(ds))
         IN  IF Done(r) THEN MergeAllAt(r.h, base, Tail(ds)) ELSE r

\* _aggregate_tender_dicts(dicts)
_aggregate_tender_dicts_at(h, ds) ==
    LET fs == SelectSeq(ds, LAMBDA d : IsDictAt(h, d) /\ TruthyAt(h, d))
        fresh == _deep_copy_schema_at(h)
        merged == MergeAllAt(fresh.h, fresh.c.v, fs)
    IN  IF fs = << >> THEN _deep_copy_schema_at(h)
        ELSE _normalize_to_schema_at(merged.h, merged.c)


-----------------------------------------------------------------------------
(* One run of the pipeline on the heap: heuristic parse, aggregation of the *)
(* LLM dicts, normalisation, reconciliation, market enrichment and the      *)
(* aggregation across documents *)

MaxInputs == 2

WorkB == Dict([name |-> Str(sBeton), volume |-> Str(<<"3">>), unit |-> Str(sSht)])

\* the dicts handed to the aggregation: lists under keys of the template and
\* under further keys, a nested section, a market section of an earlier run,
\* and a market section that is no dict
HeapDicts ==
    {Dict([title |-> sT1, goods |-> One("items", List(<<GoodsA>>))]),
     One("works", List(<<WorkB>>)),
     One("technical", One("works", One("works_list", List(<<WorkB>>)))),
     Dict([customer |-> One("name", sT1),
           market_analysis |->
               Dict([city |-> sT2,
                     minimum_sum_calculation |->
                         Dict([total_min |-> Num(5),
                               works_breakdown |->
                                   List(<<One("work_name", Str(sSvai))>>)]),
                     performers_by_task |->
                         One("Svai", List(<<One("name", sT1)>>))])]),
     Dict([works |-> List(<<WorkB>>), market_analysis |-> List(<<sT1>>)]),
     One("extra", One("k", List(<<sT2>>)))}

HeapInputLists == UNION {[1..n -> HeapDicts] : n \in 1..MaxInputs}

\* the quotes of the price lookups of a run
HeapQuotes ==
    {LookupResult(PriceReplies[2]), PriceInfo(FALSE, "none", <<"<no api key>">>)}

\* the text of the document
HeapText == [lines |-> <<Row(sSvai, <<"2">>, sSht)>>, more |-> 0, pad |-> 0]

RECURSIVE LoadAll(_, _, _)
\* the values of xs as new objects, one after the other: heap and references
LoadAll(h, xs, cs) ==
    IF xs = << >> THEN [h |-> h, cs |-> cs]
    ELSE LET r == Load(h, Head(xs))
         IN  IF Done(r) THEN LoadAll(r.h, Tail(xs), Append(cs, r.c))
             ELSE [h |-> h, cs |-> cs]

RECURSIVE WriteAll(_, _, _, _)
\* d[k] = rec[k] for the keys given, on the dict at address a; the values
\* are new objects
WriteAll(h, a, rec, keys) ==
    IF keys = {} THEN h
    ELSE LET k == CHOOSE kk \in keys : TRUE
             r == Load(h, rec.v[k])
         IN  IF Done(r) THEN WriteAll(SetAt(r.h, a, k, r.c), a, rec, keys \ {k})
             ELSE h

\* d.setdefault(k, {}) on the dict at address a
SetDefaultAt(h, a, k) ==
    IF k \in DOMAIN h[a].v THEN [h |-> h, c |-> h[a].v[k]]
    ELSE LET r == Alloc(h, [t |-> "dict", v |-> EmptyMap])
         IN  [h |-> SetAt(r.h, a, k, r.c), c |-> r.c]

\* the keys _postprocess_fields assigns at the top, in object, in customer
TopWritten == {"title", "description"}

ObjectWritten == {"name", "address"}

CustomerWritten == {"name", "address", "contacts"}

\* _postprocess_fields(tender_data, fallback_data) and the user_city
\* assignment: in-place writes to tender_data, its object, its customer and
\* its analysis_meta.  pv is the record the writes add up to
ReconciledHeap(h, td, pv, city) ==
    LET h1 == WriteAll(h, td.v, pv, TopWritten)
        h2 == WriteAll(h1, h1[td.v].v["object"].v, Field(pv, "object"),
                       ObjectWritten)
        h3 == WriteAll(h2, h2[td.v].v["customer"].v, Field(pv, "customer"),
                       CustomerWritten)
        meta == SetDefaultAt(h3, td.v, "analysis_meta")
    IN  SetAt(meta.h, meta.c.v, "user_city", Or(city, EmptyStr))

\* the keys _apply_market_analysis assigns in minimum_sum_calculation
CalcWritten ==
    {"total_min", "total_max", "currency", "confidence", "works_breakdown"}

\* the writes of _apply_market_analysis: ma and calc are the dicts setdefault
\* gave, out is the market_analysis section the writes add up to
EnrichedHeap(h, ma, calc, out) ==
    LET h1 == WriteAll(h, calc.v, Field(out, "minimum_sum_calculation"),
                       CalcWritten)
    IN  WriteAll(h1, ma.v, out,
                 {"city", "search_engine"}
                 \cup ({"performers_by_task"} \cap DOMAIN out.v))

HeapInit ==
    /\ hp_given \in HeapInputLists
    /\ hp_heap = LoadAll(SchemaHeap.h, hp_given, << >>).h
    /\ hp_inputs = LoadAll(SchemaHeap.h, hp_given, << >>).cs
    /\ hp_fb = Null
    /\ hp_td = Null
    /\ hp_city \in {Null, Str(sK)}
    /\ hp_pc = "start"

\* fallback_data = _fallback_parse(text): a record of new objects
HeapParse ==
    /\ hp_pc = "start"
    /\ LET r == Load(hp_heap, _fallback_parse(HeapText))
       IN  hp_heap' = r.h /\ hp_fb' = r.c
    /\ hp_pc' = "parsed"
    /\ UNCHANGED <<hp_inputs, hp_given, hp_td, hp_city>>
    /\ UNCHANGED notHeap

\* llm_agg = _aggregate_tender_dicts(partial_results);
\* tender_data = _normalize_to_schema(llm_agg)
HeapAggregate ==
    /\ hp_pc = "parsed"
    /\ LET llm == _aggregate_tender_dicts_at(hp_heap, hp_inputs)
           r == _normalize_to_schema_at(llm.h, llm.c)
       IN  hp_heap' = r.h /\ hp_td' = r.c
    /\ hp_pc' = "normalized"
    /\ UNCHANGED <<hp_inputs, hp_given, hp_fb, hp_city>>
    /\ UNCHANGED notHeap

\* tender_data = _postprocess_fields(tender_data, fallback_data);
\* tender_data["analysis_meta"]["user_city"] = user_city or ""
HeapReconcile ==
    /\ hp_pc = "normalized"
    /\ LET pv == _postprocess_fields(Read(hp_heap, hp_td), Read(hp_heap, hp_fb))
       IN  /\ pv # Raised
           /\ hp_heap' = ReconciledHeap(hp_heap, hp_td, pv, hp_city)
    /\ hp_pc' = "reconciled"
    /\ UNCHANGED <<hp_inputs, hp_given, hp_fb, hp_td, hp_city>>
    /\ UNCHANGED notHeap

\* _apply_market_analysis(tender_data, user_city) with nothing to price
HeapEnrichNothing ==
    /\ hp_pc = "reconciled"
    /\ EnrichWorks(Read(hp_heap, hp_td)) = << >>
    /\ hp_pc' = "enriched"
    /\ UNCHANGED <<hp_heap, hp_inputs, hp_given, hp_fb, hp_td, hp_city>>
    /\ UNCHANGED notHeap

\* _apply_market_analysis(tender_data, user_city): the two setdefault calls,
\* then the assignments to calc and ma
HeapEnrich ==
    /\ hp_pc = "reconciled"
    /\ \E q \in HeapQuotes, pl \in PerformerLists :
        LET td == Read(hp_heap, hp_td)
            works == EnrichWorks(td)
            out == _apply_market_analysis(td, hp_city, TRUE,
                       [k \in KeysOf(works, hp_city) |-> q],
                       [n \in NamesOf(works) |-> pl])
            ma == SetDefaultAt(hp_heap, hp_td.v, "market_analysis")
            calc == SetDefaultAt(ma.h, ma.c.v, "minimum_sum_calculation")
        IN  /\ works # << >>
            /\ out # Raised
            /\ hp_heap' = EnrichedHeap(calc.h, ma.c, calc.c,
                                       Field(out, "market_analysis"))
    /\ hp_pc' = "enriched"
    /\ UNCHANGED <<hp_inputs, hp_given, hp_fb, hp_td, hp_city>>
    /\ UNCHANGED notHeap

\* ma.setdefault or the first assignment to calc raises: market_analysis or
\* minimum_sum_calculation is there and is no dict; nothing was written
HeapEnrichRaise ==
    /\ hp_pc = "reconciled"
    /\ EnrichWorks(Read(hp_heap, hp_td)) # << >>
    /\ MarketSectionRaises(Read(hp_heap, hp_td))
    /\ hp_pc' = "raised"
    /\ UNCHANGED <<hp_heap, hp_inputs, hp_given, hp_fb, hp_td, hp_city>>
    /\ UNCHANGED notHeap

\* summarize_jsons([s, s]) for s = json.dumps(tender_data): each json.loads
\* builds new objects, and the two dicts are aggregated
HeapSummarize ==
    /\ hp_pc = "enriched"
    /\ LET td == Read(hp_heap, hp_td)
           docs == LoadAll(hp_heap, <<td, td>>, << >>)
           r == _aggregate_tender_dicts_at(docs.h, docs.cs)
       IN  /\ hp_heap' = r.h
           /\ hp_td' = r.c
           /\ hp_inputs' = hp_inputs \o docs.cs
           /\ hp_given' = hp_given \o <<td, td>>
    /\ hp_pc' = "summarized"
    /\ UNCHANGED <<hp_fb, hp_city>>
    /\ UNCHANGED notHeap

HeapNext ==
    \/ HeapParse
    \/ HeapAggregate
    \/ HeapReconcile
    \/ HeapEnrichNothing
    \/ HeapEnrich
    \/ HeapEnrichRaise
    \/ HeapSummarize

InitHeap ==
    /\ HeapInit /\ MergeIdle /\ ParseIdle /\ PriceIdle /\ AnalyzeIdle
    /\ ReconcileIdle /\ SplitIdle /\ WorksIdle /\ PerformIdle /\ RaceIdle
    /\ FallbackIdle /\ SummaryIdle

SpecHeap == InitHeap /\ [][HeapNext]_vars

\* the record on the heap after the aggregation and the normalisation is the
\* record the functions give as values
HeapAgreesWithValues ==
    hp_pc = "normalized" =>
        Read(hp_heap, hp_td)
            = _normalize_to_schema(_aggregate_tender_dicts(hp_given))

\* C30: no sequence of pipeline operations, the in-place writes of
\* reconciliation and enrichment included, changes the module-level
\* UNIFIED_TENDER_SCHEMA or any dict that was handed to the aggregation.
C30_TemplateAndInputsUnchanged ==
    /\ \A a \in 1..Len(SchemaHeap.h) : hp_heap[a] = SchemaHeap.h[a]
    /\ Read(hp_heap, SchemaRef) = UNIFIED_TENDER_SCHEMA
    /\ \A i \in 1..Len(hp_inputs) : Read(hp_heap, hp_inputs[i]) = hp_given[i]

\* enrichment has written to a record that shares objects with a dict that
\* was handed to the aggregation
C30_Witness ==
    /\ hp_pc = "enriched"
    /\ "market_analysis" \in DOMAIN Read(hp_heap, hp_td).v
    /\ Field(Field(Read(hp_heap, hp_td), "market_analysis"), "search_engine")
           # Null
    /\ \E i \in 1..Len(hp_inputs) :
           Reach(hp_heap, hp_td) \cap Reach(hp_heap, hp_inputs[i]) # {}

=============================================================================
